---- MODULE Spec2Model ----
(***************************************************************************)
(* BET Tracker: the charging-session ledger (charging_logs), the swap      *)
(* ledger (swapping_log) and the operator clients that mutate them.        *)
(*                                                                         *)
(* Storage is the Supabase/Postgres back end: the tables, the row level    *)
(* security policies of the migrations and the column types.  A client is  *)
(* one browser tab showing either the operator dashboard (UserDashboard)   *)
(* or the ChargingControl card.  Every supabase call is asynchronous: the  *)
(* client sends a request, storage processes it at some later moment and   *)
(* the response reaches the client later still; requests and responses of  *)
(* different calls are unordered.                                          *)
(***************************************************************************)
EXTENDS Integers, Sequences, FiniteSets, TLC

(* ------------------------------ bounds --------------------------------- *)
MaxRows == 2
MaxSwaps == 2
MaxTime == 2
MaxInflight == 1
MaxLen == 4
MaxWrites == 3     \* user_profiles statements sent by the management forms
MaxSkew == 1       \* device clock of a client ahead of the reference clock, in ticks

(* ------------------------- strings as char sequences ------------------- *)
Digits == {"0", "1", "2", "3", "4", "5", "6", "7", "8", "9"}
Whitespace == {" "}
Alphabet == {"1", ".", "-", "a", " "}

RECURSIVE StringsUpTo(_)
StringsUpTo(n) ==
  IF n = 0 THEN {<<>>}
  ELSE LET shorter == StringsUpTo(n - 1)
       IN shorter \cup {Append(s, ch) : s \in {t \in shorter : Len(t) = n - 1},
                                        ch \in Alphabet}

IsDigits(s) == \A k \in 1..Len(s) : s[k] \in Digits

\* JavaScript /^\d*\.?\d*$/.test(value)
RegexNumeric(value) ==
  \E i \in 0..Len(value) :
     /\ IsDigits(SubSeq(value, 1, i))
     /\ LET rest == SubSeq(value, i + 1, Len(value))
        IN \/ rest = <<>>
           \/ /\ rest[1] = "."
              /\ IsDigits(Tail(rest))

isValidNumericInput(value) ==
  IF value = <<>> THEN TRUE ELSE RegexNumeric(value)

\* String.prototype.trim() = '' : only whitespace
TrimIsEmpty(value) == \A k \in 1..Len(value) : value[k] \in Whitespace

\* !meterReading || meterReading.trim() === ''
MeterMissing(value) == value = <<>> \/ TrimIsEmpty(value)

RECURSIVE DropDots(_)
DropDots(s) ==
  IF s = <<>> THEN <<>>
  ELSE IF Head(s) = "." THEN DropDots(Tail(s))
       ELSE <<Head(s)>> \o DropDots(Tail(s))

RECURSIVE KeepFirstDot(_)
KeepFirstDot(s) ==
  IF s = <<>> THEN <<>>
  ELSE IF Head(s) = "." THEN <<".">> \o DropDots(Tail(s))
       ELSE <<Head(s)>> \o KeepFirstDot(Tail(s))

\* value.replace(/[^\d.]/g, '') and then at most one decimal point
handleNumericInput(value) ==
  KeepFirstDot(SelectSeq(value, LAMBDA ch : ch \in Digits \cup {"."}))

\* a value Postgres casts to DECIMAL: digits with at most one point, one digit at least
NumericCastOK(value) ==
  /\ RegexNumeric(value)
  /\ \E k \in 1..Len(value) : value[k] \in Digits

(* --------------------------- null values ------------------------------- *)
NullTime == 0
NullId == ""
NullSession ==
  [id |-> 0, equipment_id |-> NullId, user_id |-> NullId, location_id |-> NullId,
   charging_point_id |-> NullId, Meter_reading |-> <<>>,
   start_time |-> NullTime, end_time |-> NullTime]

(* ------------------- directory tables (read-only here) ----------------- *)
Locations == {"L1", "L2"}
Users == {"u1", "u2", "u3", "u4"}
Clients == {"c1", "c2"}

\* user_profiles rows
user_profiles ==
  [u \in Users |->
     CASE u = "u1" -> [id |-> "u1", role |-> "user", location_id |-> "L1", is_active |-> TRUE,
                       Charging_Access |-> TRUE, Swapping_Access |-> TRUE]
       [] u = "u2" -> [id |-> "u2", role |-> "user", location_id |-> "L1", is_active |-> TRUE,
                       Charging_Access |-> TRUE, Swapping_Access |-> FALSE]
       [] u = "u3" -> [id |-> "u3", role |-> "user", location_id |-> "L1", is_active |-> TRUE,
                       Charging_Access |-> FALSE, Swapping_Access |-> FALSE]
       [] OTHER    -> [id |-> "u4", role |-> "user", location_id |-> "L1", is_active |-> TRUE,
                       Charging_Access |-> FALSE, Swapping_Access |-> TRUE]]

\* bet_records rows: id (uuid), equipment_id (the human readable number)
EquipmentIds == {"e1", "e2", "e3"}
bet_records ==
  [e \in EquipmentIds |->
     CASE e = "e1" -> [id |-> "e1", equipment_id |-> "EQ-001", location_id |-> "L1",
                       status |-> "operational"]
       [] e = "e2" -> [id |-> "e2", equipment_id |-> "EQ-002", location_id |-> "L1",
                       status |-> "maintenance"]
       [] OTHER    -> [id |-> "e3", equipment_id |-> "EQ-003", location_id |-> "L2",
                       status |-> "operational"]]
EquipmentNos == {bet_records[e].equipment_id : e \in EquipmentIds}

\* Charging_Points rows
PointIds == {"p1", "p2"}
Charging_Points ==
  [p \in PointIds |->
     IF p = "p1" THEN [id |-> "p1", Locations |-> "L1"]
                 ELSE [id |-> "p2", Locations |-> "L2"]]

(* ------------------------------- state --------------------------------- *)
VARIABLES
  charging_logs,   \* table charging_logs: sequence of rows, row id = position
  swapping_log,    \* table swapping_log: sequence of rows
  now,             \* the latest instant any client clock has shown
  net,             \* supabase calls in flight: requests and responses
  notified,        \* notified[c]: the tables with a postgres_changes event on its way to c
  ui,              \* ui[c]: the React state of client c
  directory,       \* table user_profiles as the user-management screens read and write it
  records,         \* the ids of the rows of table bet_records
  console,         \* console[a]: the React state of the Dashboard session of account a
  writes,          \* the number of user_profiles statements sent so far
  points,          \* table Charging_Points as the ChargingPoints tab reads and writes it
  skew,            \* per client, how far its device clock is ahead of the reference clock
  lanes,           \* per client, how many of its calls can be under way at once
  auth             \* AuthProvider and LoginPage of one browser tab, and its identity provider

vars == <<charging_logs, swapping_log, now, net, notified, ui, directory, records, console, writes,
          points, skew, lanes, auth>>

Profile(c) == user_profiles[ui[c].profile]

(* ----------------------------- messages -------------------------------- *)
ChargingKinds == {"fetch", "startFetch", "insert", "update", "ccFetch", "ccInsert", "ccUpdate"}
SwapKinds == {"swap", "count"}

\* one supabase call: closure = the currentSession the calling handler closed over,
\* row = the row being written, data = the row the latest answer carried
Msg(c, slot, kind, phase, eq, closure, row, data, time, ok, err) ==
  [client |-> c, slot |-> slot, kind |-> kind, phase |-> phase, eq |-> eq,
   closure |-> closure, row |-> row, data |-> data, time |-> time, ok |-> ok, err |-> err]

\* every client limited to MaxInflight calls of a kind at once
SingleLane == [c \in Clients |-> MaxInflight]

FreeSlots(c, kinds) ==
  {k \in 1..lanes[c] : \A m \in net : ~(m.client = c /\ m.kind \in kinds /\ m.slot = k)}
CanSend(c, kinds) == FreeSlots(c, kinds) # {}
Slot(c, kinds) == CHOOSE k \in FreeSlots(c, kinds) : \A j \in FreeSlots(c, kinds) : k <= j

Reply(m, data, ok, err) == [m EXCEPT !.phase = "resp", !.data = data, !.ok = ok, !.err = err]

(* ------------------------------ storage -------------------------------- *)
Rows(log) == {log[i] : i \in 1..Len(log)}

\* SELECT policies of charging_logs
CanView(u, row) ==
  /\ user_profiles[u].is_active
  /\ \/ user_profiles[u].role = "super_admin"
     \/ user_profiles[u].location_id = row.location_id

\* rows of .eq('equipment_id', e).is('end_time', null)
OpenRows(u, e) ==
  {r \in Rows(charging_logs) : r.equipment_id = e /\ r.end_time = NullTime /\ CanView(u, r)}

\* .order('start_time', {ascending: false}).limit(1).maybeSingle(): the results possible
NewestOpen(u, e) ==
  IF OpenRows(u, e) = {} THEN {NullSession}
  ELSE {r \in OpenRows(u, e) : \A q \in OpenRows(u, e) : q.start_time <= r.start_time}

\* policy "Users can insert charging logs"
InsertPolicy(u, row) ==
  /\ user_profiles[u].location_id = row.location_id
  /\ user_profiles[u].is_active

\* policy "Users can update charging logs"
UpdatePolicy(u, row) ==
  /\ user_profiles[u].location_id = row.location_id
  /\ user_profiles[u].is_active
  /\ \/ row.user_id = u
     \/ user_profiles[u].role \in {"admin", "super_admin"}

\* clients whose realtime channel is filtered on equipment e
Subscribers(e) == {c \in Clients : ui[c].selectedEquipment = e}

Notify(e, table) ==
  [c \in Clients |-> IF c \in Subscribers(e) THEN notified[c] \cup {table} ELSE notified[c]]

(* ------------------------- construction -------------------------------- *)
NewClient(u, page, url, equipment) ==
  [profile |-> u, page |-> page, url |-> url, effectPending |-> TRUE,
   selectedEquipment |-> equipment, currentSession |-> NullSession,
   selectedChargingPoint |-> NullId, meterReading |-> <<>>, swapMeterReading |-> <<>>,
   operationLoading |-> FALSE, swappingLoading |-> FALSE,
   error |-> "", queryError |-> "", swappingSuccess |-> "",
   showChargingConfirm |-> FALSE, showStopChargingConfirm |-> FALSE,
   showSwapConfirm |-> FALSE, totalSwapCount |-> 0]

\* the equipment a ChargingControl card can be mounted with: rows the profile can read
CardEquipment(u) ==
  {e \in EquipmentIds : bet_records[e].location_id = user_profiles[u].location_id}

Set(c, r) == ui' = [ui EXCEPT ![c] = r]

\* new Date(): the clock has moved on by at most one tick since it was last read
Clock == {t \in {now, now + 1} : t <= MaxTime}

\* new Date().toISOString() on the device of client c at reference time t
Stamp(c, t) == t + skew[c]

\* all device clocks agree
Synchronised == [c \in Clients |-> 0]

(* ------------------- UserDashboard: equipment selection ---------------- *)
\* mutant: the lookup without .eq('location_id', profile?.location_id)
resolveByCode_anyLocation(u, equipmentNo) ==
  {e \in EquipmentIds : /\ bet_records[e].status = "operational"
                        /\ bet_records[e].equipment_id = equipmentNo}

\* .eq('location_id', ...).eq('status', 'operational').eq('equipment_id', equipmentNo).maybeSingle()
resolveByCode(u, equipmentNo) ==
  {e \in EquipmentIds : /\ bet_records[e].location_id = user_profiles[u].location_id
                        /\ bet_records[e].status = "operational"
                        /\ bet_records[e].equipment_id = equipmentNo}

\* the effect on selectedEquipment?.id: fetchCurrentSession() and a fresh channel
SessionEffect(c, e) ==
  IF e = NullId \/ e = ui[c].selectedEquipment THEN {}
  ELSE {Msg(c, Slot(c, ChargingKinds), "fetch", "req", e, NullSession, NullSession,
            NullSession, NullTime, TRUE, "")}

Resubscribe(c, e) ==
  IF e = ui[c].selectedEquipment THEN notified
  ELSE [notified EXCEPT ![c] = IF e = NullId THEN {} ELSE {"swapping_log"}]

fetchEquipment(c) ==
  /\ ui[c].page = "UserDashboard"
  /\ ui[c].effectPending
  /\ LET found == resolveByCode(ui[c].profile, ui[c].url)
         e == IF found = {} THEN NullId ELSE CHOOSE x \in found : TRUE
     IN IF ui[c].url = ""
        THEN /\ Set(c, [ui[c] EXCEPT !.effectPending = FALSE,
                                     !.queryError = "Equipment number is required"])
             /\ UNCHANGED <<net, notified>>
        ELSE /\ SessionEffect(c, e) # {} => CanSend(c, ChargingKinds)
             /\ Set(c, [ui[c] EXCEPT !.effectPending = FALSE,
                                     !.selectedEquipment = e,
                                     !.queryError = IF e = NullId
                                                    THEN "Equipment not found or not accessible"
                                                    ELSE ""])
             /\ net' = net \cup SessionEffect(c, e)
             /\ notified' = Resubscribe(c, e)
  /\ UNCHANGED <<charging_logs, swapping_log, now, directory, records, console, writes, points, skew, lanes, auth>>
\* fetchAllEquipment: .eq('location_id', profile?.location_id)
EquipmentList(c) ==
  {e \in EquipmentIds : bet_records[e].location_id = Profile(c).location_id}

\* the drop-down, shown while the URL has no EquipmentNo
selectEquipment(c, e) ==
  /\ ui[c].page = "UserDashboard"
  /\ ui[c].url = ""
  /\ ~ui[c].effectPending
  /\ e \in EquipmentList(c) \cup {NullId}
  /\ SessionEffect(c, e) # {} => CanSend(c, ChargingKinds)
  /\ Set(c, [ui[c] EXCEPT !.selectedEquipment = e,
                          !.currentSession = NullSession,
                          !.selectedChargingPoint = NullId,
                          !.meterReading = <<>>,
                          !.swapMeterReading = <<>>,
                          !.url = IF e = NullId THEN "" ELSE bet_records[e].equipment_id,
                          !.effectPending = (e # NullId)])
  /\ net' = net \cup SessionEffect(c, e)
  /\ notified' = Resubscribe(c, e)
  /\ UNCHANGED <<charging_logs, swapping_log, now, directory, records, console, writes, points, skew, lanes, auth>>
(* --------------------- UserDashboard: the start form ------------------- *)
PanelShown(c) == ui[c].page = "UserDashboard" /\ ui[c].selectedEquipment # NullId
isEquipmentCharging(c) == ui[c].currentSession # NullSession

\* fetchChargingPoints: .eq('Locations', profile.location_id)
chargingPoints(c) == {p \in PointIds : Charging_Points[p].Locations = Profile(c).location_id}

\* the inputs are rendered while !isEquipmentCharging && profile?.Charging_Access
FormShown(c) == PanelShown(c) /\ ~isEquipmentCharging(c) /\ Profile(c).Charging_Access

selectChargingPoint(c, p) ==
  /\ FormShown(c)
  /\ p \in chargingPoints(c)
  /\ p # ui[c].selectedChargingPoint
  /\ Set(c, [ui[c] EXCEPT !.selectedChargingPoint = p, !.error = ""])
  /\ UNCHANGED <<charging_logs, swapping_log, now, net, notified, directory, records, console, writes, points, skew, lanes, auth>>
typeMeterReading(c, raw) ==
  /\ FormShown(c)
  /\ handleNumericInput(raw) # ui[c].meterReading
  /\ Set(c, [ui[c] EXCEPT !.meterReading = handleNumericInput(raw), !.error = ""])
  /\ UNCHANGED <<charging_logs, swapping_log, now, net, notified, directory, records, console, writes, points, skew, lanes, auth>>
\* the three input checks shared by handleStartChargingClick and startCharging
InputError(point, meter) ==
  IF point = NullId THEN "Please select a charging point before starting"
  ELSE IF MeterMissing(meter) THEN "Please enter a meter reading before starting"
  ELSE IF ~isValidNumericInput(meter) THEN "Meter reading must be a valid number"
  ELSE ""

handleStartChargingClick(c) ==
  /\ PanelShown(c)
  /\ ~isEquipmentCharging(c)
  \* disabled={operationLoading || !Charging_Access || !selectedChargingPoint || !meterReading}
  /\ ~ui[c].operationLoading
  /\ Profile(c).Charging_Access
  /\ ui[c].selectedChargingPoint # NullId
  /\ ui[c].meterReading # <<>>
  /\ ~ui[c].showChargingConfirm
  /\ LET e == InputError(ui[c].selectedChargingPoint, ui[c].meterReading)
     IN IF e # "" THEN Set(c, [ui[c] EXCEPT !.error = e])
        ELSE Set(c, [ui[c] EXCEPT !.showChargingConfirm = TRUE])
  /\ UNCHANGED <<charging_logs, swapping_log, now, net, notified, directory, records, console, writes, points, skew, lanes, auth>>
(* ------------------------ UserDashboard: startCharging ----------------- *)
\* the synchronous checks of startCharging, in source order
StartError(equipment, access, point, meter) ==
  IF equipment = NullId THEN "No equipment selected or user not authenticated"
  ELSE IF ~access THEN "You do not have permission to start charging"
  ELSE InputError(point, meter)

\* the row startCharging inserts (start_time is read just before the insert)
StartRow(c) ==
  [NullSession EXCEPT !.equipment_id = ui[c].selectedEquipment,
                      !.user_id = Profile(c).id,
                      !.location_id = bet_records[ui[c].selectedEquipment].location_id,
                      !.charging_point_id = ui[c].selectedChargingPoint,
                      !.Meter_reading = ui[c].meterReading]

\* confirmStartCharging -> startCharging up to "await fetchCurrentSession()"
confirmStartCharging(c) ==
  /\ ui[c].page = "UserDashboard"
  /\ ui[c].showChargingConfirm
  /\ LET e == StartError(ui[c].selectedEquipment, Profile(c).Charging_Access,
                         ui[c].selectedChargingPoint, ui[c].meterReading)
     IN IF e # ""
        THEN /\ Set(c, [ui[c] EXCEPT !.showChargingConfirm = FALSE, !.error = e])
             /\ UNCHANGED net
        ELSE /\ CanSend(c, ChargingKinds)
             /\ Set(c, [ui[c] EXCEPT !.showChargingConfirm = FALSE])
             /\ net' = net \cup {Msg(c, Slot(c, ChargingKinds), "startFetch", "req",
                                     ui[c].selectedEquipment, ui[c].currentSession,
                                     StartRow(c), NullSession, NullTime, TRUE, "")}
  /\ UNCHANGED <<charging_logs, swapping_log, now, notified, directory, records, console, writes, points, skew, lanes, auth>>
\* "if (currentSession)" after the await: the value the handler closed over
SessionSeen(m) == m.closure

\* startCharging resumes after "await fetchCurrentSession()"
startCharging(c, m) ==
  /\ m \in net /\ m.client = c /\ m.kind = "startFetch" /\ m.phase = "resp"
  /\ LET fetched == IF m.ok THEN m.data ELSE NullSession
     IN IF SessionSeen(m) # NullSession
        THEN /\ Set(c, [ui[c] EXCEPT !.currentSession = fetched,
                                     !.error = "Equipment is already charging"])
             /\ net' = net \ {m}
             /\ UNCHANGED now
        ELSE \E t \in Clock :
             /\ Set(c, [ui[c] EXCEPT !.currentSession = fetched,
                                     !.operationLoading = TRUE,
                                     !.error = ""])
             /\ net' = (net \ {m}) \cup
                       {[m EXCEPT !.kind = "insert", !.phase = "req",
                                  !.row = [m.row EXCEPT !.start_time = Stamp(c, t)],
                                  !.data = fetched, !.time = Stamp(c, t)]}
             /\ now' = t
  /\ UNCHANGED <<charging_logs, swapping_log, notified, directory, records, console, writes, points, skew, lanes, auth>>
\* the insert of startCharging returns
startChargingDone(c, m) ==
  /\ m \in net /\ m.client = c /\ m.kind = "insert" /\ m.phase = "resp"
  /\ IF m.ok
     THEN Set(c, [ui[c] EXCEPT !.currentSession = m.data, !.operationLoading = FALSE])
     ELSE Set(c, [ui[c] EXCEPT !.error = m.err, !.operationLoading = FALSE])
  /\ net' = net \ {m}
  /\ UNCHANGED <<charging_logs, swapping_log, now, notified, directory, records, console, writes, points, skew, lanes, auth>>
(* ------------------------ UserDashboard: stopCharging ------------------ *)
handleStopChargingClick(c) ==
  /\ PanelShown(c)
  /\ isEquipmentCharging(c)
  \* disabled={operationLoading || !profile?.Charging_Access}
  /\ ~ui[c].operationLoading
  /\ Profile(c).Charging_Access
  /\ ~ui[c].showStopChargingConfirm
  /\ Set(c, [ui[c] EXCEPT !.showStopChargingConfirm = TRUE])
  /\ UNCHANGED <<charging_logs, swapping_log, now, net, notified, directory, records, console, writes, points, skew, lanes, auth>>
StopError(session, access) ==
  IF session = NullSession THEN "No active charging session or user not authenticated"
  ELSE IF ~access THEN "You do not have permission to stop charging"
  ELSE ""

\* confirmStopCharging -> stopCharging up to the awaited update
confirmStopCharging(c) ==
  /\ ui[c].page = "UserDashboard"
  /\ ui[c].showStopChargingConfirm
  /\ LET e == StopError(ui[c].currentSession, Profile(c).Charging_Access)
     IN IF e # ""
        THEN /\ Set(c, [ui[c] EXCEPT !.showStopChargingConfirm = FALSE, !.error = e])
             /\ UNCHANGED <<net, now>>
        ELSE \E t \in Clock :
             /\ CanSend(c, ChargingKinds)
             /\ Set(c, [ui[c] EXCEPT !.showStopChargingConfirm = FALSE,
                                     !.operationLoading = TRUE,
                                     !.error = ""])
             /\ net' = net \cup {Msg(c, Slot(c, ChargingKinds), "update", "req",
                                     ui[c].currentSession.equipment_id, ui[c].currentSession,
                                     NullSession, NullSession, Stamp(c, t), TRUE, "")}
             /\ now' = t
  /\ UNCHANGED <<charging_logs, swapping_log, notified, directory, records, console, writes, points, skew, lanes, auth>>
\* mutant: the session is dropped whether or not the update went through
StopFailed_clearsSession(c, m) ==
  [ui[c] EXCEPT !.currentSession = NullSession, !.error = m.err, !.operationLoading = FALSE]

\* stopCharging's catch and finally: setError(err.message), setOperationLoading(false)
StopFailed(c, m) ==
  [ui[c] EXCEPT !.error = m.err, !.operationLoading = FALSE]

\* the update of stopCharging returns
stopChargingDone(c, m) ==
  /\ m \in net /\ m.client = c /\ m.kind = "update" /\ m.phase = "resp"
  /\ IF m.ok
     THEN Set(c, [ui[c] EXCEPT !.currentSession = NullSession, !.operationLoading = FALSE])
     ELSE Set(c, StopFailed(c, m))
  /\ net' = net \ {m}
  /\ UNCHANGED <<charging_logs, swapping_log, now, notified, directory, records, console, writes, points, skew, lanes, auth>>
(* ---------------- UserDashboard: fetchCurrentSession ------------------- *)
\* the postgres_changes callback of the charging_logs channel
onChargingLogsChange(c) ==
  /\ ui[c].page = "UserDashboard"
  /\ "charging_logs" \in notified[c]
  /\ ui[c].selectedEquipment # NullId
  /\ CanSend(c, ChargingKinds)
  /\ net' = net \cup {Msg(c, Slot(c, ChargingKinds), "fetch", "req", ui[c].selectedEquipment,
                          NullSession, NullSession, NullSession, NullTime, TRUE, "")}
  /\ notified' = [notified EXCEPT ![c] = @ \ {"charging_logs"}]
  /\ UNCHANGED <<charging_logs, swapping_log, now, ui, directory, records, console, writes, points, skew, lanes, auth>>
\* fetchCurrentSession returns: setCurrentSession(data || null), null on error
fetchCurrentSessionDone(c, m) ==
  /\ m \in net /\ m.client = c /\ m.kind = "fetch" /\ m.phase = "resp"
  /\ Set(c, [ui[c] EXCEPT !.currentSession = IF m.ok THEN m.data ELSE NullSession])
  /\ net' = net \ {m}
  /\ UNCHANGED <<charging_logs, swapping_log, now, notified, directory, records, console, writes, points, skew, lanes, auth>>
(* ------------------------------ ChargingControl ------------------------ *)
CardShown(c) == ui[c].page = "ChargingControl"

\* the mount effect and the postgres_changes callback: fetchCurrentLog()
fetchCurrentLog(c) ==
  /\ CardShown(c)
  /\ ui[c].effectPending \/ "charging_logs" \in notified[c]
  /\ CanSend(c, ChargingKinds)
  /\ net' = net \cup {Msg(c, Slot(c, ChargingKinds), "ccFetch", "req", ui[c].selectedEquipment,
                          NullSession, NullSession, NullSession, NullTime, TRUE, "")}
  /\ notified' = [notified EXCEPT ![c] = @ \ {"charging_logs"}]
  /\ Set(c, [ui[c] EXCEPT !.effectPending = FALSE])
  /\ UNCHANGED <<charging_logs, swapping_log, now, directory, records, console, writes, points, skew, lanes, auth>>
\* fetchCurrentLog returns: setCurrentLog(data); an error leaves currentLog alone
fetchCurrentLogDone(c, m) ==
  /\ m \in net /\ m.client = c /\ m.kind = "ccFetch" /\ m.phase = "resp"
  /\ IF m.ok THEN Set(c, [ui[c] EXCEPT !.currentSession = m.data]) ELSE UNCHANGED ui
  /\ net' = net \ {m}
  /\ UNCHANGED <<charging_logs, swapping_log, now, notified, directory, records, console, writes, points, skew, lanes, auth>>
\* ChargingControl.startCharging: the button shows for role 'user' while !currentLog
cardStartCharging(c) ==
  /\ CardShown(c)
  /\ Profile(c).role = "user"
  /\ ui[c].currentSession = NullSession
  /\ ~ui[c].operationLoading
  /\ CanSend(c, ChargingKinds)
  /\ \E t \in Clock :
       /\ net' = net \cup
            {Msg(c, Slot(c, ChargingKinds), "ccInsert", "req", ui[c].selectedEquipment,
                 NullSession,
                 [NullSession EXCEPT !.equipment_id = ui[c].selectedEquipment,
                                     !.user_id = Profile(c).id,
                                     !.location_id = bet_records[ui[c].selectedEquipment].location_id,
                                     !.start_time = Stamp(c, t)],
                 NullSession, Stamp(c, t), TRUE, "")}
       /\ now' = t
  /\ Set(c, [ui[c] EXCEPT !.operationLoading = TRUE, !.error = ""])
  /\ UNCHANGED <<charging_logs, swapping_log, notified, directory, records, console, writes, points, skew, lanes, auth>>
\* ChargingControl.stopCharging: the button shows for role 'user' while currentLog
cardStopCharging(c) ==
  /\ CardShown(c)
  /\ Profile(c).role = "user"
  /\ ui[c].currentSession # NullSession
  /\ ~ui[c].operationLoading
  /\ CanSend(c, ChargingKinds)
  /\ \E t \in Clock :
       /\ net' = net \cup {Msg(c, Slot(c, ChargingKinds), "ccUpdate", "req",
                               ui[c].selectedEquipment, ui[c].currentSession,
                               NullSession, NullSession, Stamp(c, t), TRUE, "")}
       /\ now' = t
  /\ Set(c, [ui[c] EXCEPT !.operationLoading = TRUE, !.error = ""])
  /\ UNCHANGED <<charging_logs, swapping_log, notified, directory, records, console, writes, points, skew, lanes, auth>>
\* either write of the card returns: onStatusChange() or setError, then setLoading(false)
cardWriteDone(c, m) ==
  /\ m \in net /\ m.client = c /\ m.kind \in {"ccInsert", "ccUpdate"} /\ m.phase = "resp"
  /\ IF m.ok
     THEN Set(c, [ui[c] EXCEPT !.operationLoading = FALSE])
     ELSE Set(c, [ui[c] EXCEPT !.error = m.err, !.operationLoading = FALSE])
  /\ net' = net \ {m}
  /\ UNCHANGED <<charging_logs, swapping_log, now, notified, directory, records, console, writes, points, skew, lanes, auth>>
(* ---------------------- storage serves the calls ----------------------- *)
Caller(m) == ui[m.client].profile

\* any call can fail on the way (network, service): the UpstreamError outcome
StorageFail(m) ==
  /\ m \in net /\ m.phase = "req" /\ m.kind \in ChargingKinds
  /\ net' = (net \ {m}) \cup {Reply(m, NullSession, FALSE, "Failed to fetch")}
  /\ UNCHANGED <<charging_logs, swapping_log, now, notified, ui, directory, records, console, writes, points, skew, lanes, auth>>
\* fetchCurrentSession's query (also the one awaited inside startCharging)
StorageSelectNewest(m) ==
  /\ m \in net /\ m.phase = "req" /\ m.kind \in {"fetch", "startFetch"}
  /\ \E r \in NewestOpen(Caller(m), m.eq) :
       net' = (net \ {m}) \cup {Reply(m, r, TRUE, "")}
  /\ UNCHANGED <<charging_logs, swapping_log, now, notified, ui, directory, records, console, writes, points, skew, lanes, auth>>
\* fetchCurrentLog's query: .is('end_time', null).maybeSingle(), an error on several rows
StorageSelectSingle(m) ==
  /\ m \in net /\ m.phase = "req" /\ m.kind = "ccFetch"
  /\ LET open == OpenRows(Caller(m), m.eq)
     IN net' = (net \ {m}) \cup
               {IF open = {} THEN Reply(m, NullSession, TRUE, "")
                ELSE IF Cardinality(open) = 1 THEN Reply(m, CHOOSE r \in open : TRUE, TRUE, "")
                ELSE Reply(m, NullSession, FALSE, "multiple rows returned")}
  /\ UNCHANGED <<charging_logs, swapping_log, now, notified, ui, directory, records, console, writes, points, skew, lanes, auth>>
\* insert into charging_logs: the insert policy, the DECIMAL cast, then the new row
StorageInsert(m) ==
  /\ m \in net /\ m.phase = "req" /\ m.kind \in {"insert", "ccInsert"}
  /\ IF ~InsertPolicy(Caller(m), m.row)
     THEN /\ net' = (net \ {m}) \cup
                    {Reply(m, NullSession, FALSE, "new row violates row-level security policy")}
          /\ UNCHANGED <<charging_logs, notified>>
     ELSE IF m.row.Meter_reading # <<>> /\ ~NumericCastOK(m.row.Meter_reading)
     THEN /\ net' = (net \ {m}) \cup
                    {Reply(m, NullSession, FALSE, "invalid input syntax for type numeric")}
          /\ UNCHANGED <<charging_logs, notified>>
     ELSE /\ Len(charging_logs) < MaxRows
          /\ LET row == [m.row EXCEPT !.id = Len(charging_logs) + 1]
             IN /\ charging_logs' = Append(charging_logs, row)
                /\ net' = (net \ {m}) \cup {Reply(m, row, TRUE, "")}
          /\ notified' = Notify(m.row.equipment_id, "charging_logs")
  /\ UNCHANGED <<swapping_log, now, ui, directory, records, console, writes, points, skew, lanes, auth>>
\* .update({end_time}) on the row .eq('id', ...) selects
SealRow(row, time) == [row EXCEPT !.end_time = time]

\* mutant: the update addresses the open rows of the session's equipment
UpdateTarget_byEquipment(m, row) ==
  row.equipment_id = m.closure.equipment_id /\ row.end_time = NullTime

\* .eq('id', currentSession.id)
UpdateTarget(m, row) == row.id = m.closure.id

\* update charging_logs set end_time where id = ...: rows the update policy hides are skipped
StorageUpdate(m) ==
  /\ m \in net /\ m.phase = "req" /\ m.kind \in {"update", "ccUpdate"}
  /\ LET hit == {i \in 1..Len(charging_logs) :
                    /\ UpdateTarget(m, charging_logs[i])
                    /\ UpdatePolicy(Caller(m), charging_logs[i])}
     IN IF hit = {}
        THEN UNCHANGED <<charging_logs, notified>>
        ELSE /\ charging_logs' = [i \in 1..Len(charging_logs) |->
                                    IF i \in hit THEN SealRow(charging_logs[i], m.time)
                                    ELSE charging_logs[i]]
             /\ notified' = Notify(m.closure.equipment_id, "charging_logs")
  /\ net' = (net \ {m}) \cup {Reply(m, NullSession, TRUE, "")}
  /\ UNCHANGED <<swapping_log, now, ui, directory, records, console, writes, points, skew, lanes, auth>>
(* ------------------------- UserDashboard: battery swap ----------------- *)
NullSwap ==
  [id |-> 0, User_id |-> NullId, location_id |-> NullId, equipment_id |-> NullId,
   Count |-> "", Meter_reading |-> <<>>]

SwapMsg(c, slot, kind, phase, eq, row, count, ok, err) ==
  [client |-> c, slot |-> slot, kind |-> kind, phase |-> phase, eq |-> eq,
   row |-> row, count |-> count, ok |-> ok, err |-> err]

\* mutant: the swap section hidden while the equipment is charging
SwapShown_whileIdle(c) ==
  PanelShown(c) /\ Profile(c).Swapping_Access /\ ~isEquipmentCharging(c)

\* the swap section is rendered while profile?.Swapping_Access
SwapShown(c) == PanelShown(c) /\ Profile(c).Swapping_Access

typeSwapMeterReading(c, raw) ==
  /\ SwapShown(c)
  /\ handleNumericInput(raw) # ui[c].swapMeterReading
  /\ Set(c, [ui[c] EXCEPT !.swapMeterReading = handleNumericInput(raw), !.error = ""])
  /\ UNCHANGED <<charging_logs, swapping_log, now, net, notified, directory, records, console, writes, points, skew, lanes, auth>>
SwapInputError(meter) ==
  IF MeterMissing(meter) THEN "Please enter a meter reading before recording swap"
  ELSE IF ~isValidNumericInput(meter) THEN "Meter reading must be a valid number"
  ELSE ""

handleRecordSwapClick(c) ==
  /\ SwapShown(c)
  \* disabled={swappingLoading || !profile?.Swapping_Access || !swapMeterReading}
  /\ ~ui[c].swappingLoading
  /\ ui[c].swapMeterReading # <<>>
  /\ ~ui[c].showSwapConfirm
  /\ LET e == SwapInputError(ui[c].swapMeterReading)
     IN IF e # "" THEN Set(c, [ui[c] EXCEPT !.error = e])
        ELSE Set(c, [ui[c] EXCEPT !.showSwapConfirm = TRUE])
  /\ UNCHANGED <<charging_logs, swapping_log, now, net, notified, directory, records, console, writes, points, skew, lanes, auth>>
\* the synchronous checks of recordBatterySwap, in source order
SwapError(equipment, access, meter) ==
  IF equipment = NullId THEN "No equipment selected or user not authenticated"
  ELSE IF ~access THEN "You do not have permission to record battery swaps"
  ELSE SwapInputError(meter)

\* mutant: the row is written without its count
SwapRow_noCount(c) ==
  [NullSwap EXCEPT !.User_id = Profile(c).id,
                   !.location_id = bet_records[ui[c].selectedEquipment].location_id,
                   !.equipment_id = ui[c].selectedEquipment,
                   !.Meter_reading = ui[c].swapMeterReading]

\* the row recordBatterySwap inserts
SwapRow(c) ==
  [NullSwap EXCEPT !.User_id = Profile(c).id,
                   !.location_id = bet_records[ui[c].selectedEquipment].location_id,
                   !.equipment_id = ui[c].selectedEquipment,
                   !.Count = "1",
                   !.Meter_reading = ui[c].swapMeterReading]

\* confirmRecordSwap -> recordBatterySwap up to the awaited insert
confirmRecordSwap(c) ==
  /\ ui[c].page = "UserDashboard"
  /\ ui[c].showSwapConfirm
  /\ LET e == SwapError(ui[c].selectedEquipment, Profile(c).Swapping_Access,
                        ui[c].swapMeterReading)
     IN IF e # ""
        THEN /\ Set(c, [ui[c] EXCEPT !.showSwapConfirm = FALSE, !.error = e])
             /\ UNCHANGED net
        ELSE /\ CanSend(c, SwapKinds)
             /\ Set(c, [ui[c] EXCEPT !.showSwapConfirm = FALSE,
                                     !.swappingLoading = TRUE,
                                     !.error = "",
                                     !.swappingSuccess = ""])
             /\ net' = net \cup
                  {SwapMsg(c, Slot(c, SwapKinds), "swap", "req", ui[c].selectedEquipment,
                           SwapRow(c), 0, TRUE, "")}
  /\ UNCHANGED <<charging_logs, swapping_log, now, notified, directory, records, console, writes, points, skew, lanes, auth>>
\* fetchTotalSwapCount(): .select('*', {count: 'exact', head: true}).eq('equipment_id', ...)
CountRequest(c, slot) ==
  SwapMsg(c, slot, "count", "req", ui[c].selectedEquipment, NullSwap, 0, TRUE, "")

\* the insert of recordBatterySwap returns; success ends with fetchTotalSwapCount()
recordBatterySwapDone(c, m) ==
  /\ m \in net /\ m.client = c /\ m.kind = "swap" /\ m.phase = "resp"
  /\ IF m.ok
     THEN /\ Set(c, [ui[c] EXCEPT !.swappingSuccess = "Battery swap recorded successfully!",
                                  !.swapMeterReading = <<>>,
                                  !.swappingLoading = FALSE])
          /\ net' = (net \ {m}) \cup
                    (IF ui[c].selectedEquipment = NullId THEN {}
                     ELSE {CountRequest(c, m.slot)})
     ELSE /\ Set(c, [ui[c] EXCEPT !.error = m.err, !.swappingLoading = FALSE])
          /\ net' = net \ {m}
  /\ UNCHANGED <<charging_logs, swapping_log, now, notified, directory, records, console, writes, points, skew, lanes, auth>>
\* the selection effect and the postgres_changes callback of the swapping_log channel
onSwappingLogChange(c) ==
  /\ ui[c].page = "UserDashboard"
  /\ "swapping_log" \in notified[c]
  /\ ui[c].selectedEquipment # NullId
  /\ CanSend(c, SwapKinds)
  /\ net' = net \cup {CountRequest(c, Slot(c, SwapKinds))}
  /\ notified' = [notified EXCEPT ![c] = @ \ {"swapping_log"}]
  /\ UNCHANGED <<charging_logs, swapping_log, now, ui, directory, records, console, writes, points, skew, lanes, auth>>
\* fetchTotalSwapCount returns: setTotalSwapCount(count || 0), 0 on error
fetchTotalSwapCountDone(c, m) ==
  /\ m \in net /\ m.client = c /\ m.kind = "count" /\ m.phase = "resp"
  /\ Set(c, [ui[c] EXCEPT !.totalSwapCount = IF m.ok THEN m.count ELSE 0])
  /\ net' = net \ {m}
  /\ UNCHANGED <<charging_logs, swapping_log, now, notified, directory, records, console, writes, points, skew, lanes, auth>>
(* ---------------------- storage serves the swap calls ------------------ *)
SwapFail(m) ==
  /\ m \in net /\ m.phase = "req" /\ m.kind \in SwapKinds
  /\ net' = (net \ {m}) \cup {[m EXCEPT !.phase = "resp", !.ok = FALSE, !.err = "Failed to fetch"]}
  /\ UNCHANGED <<charging_logs, swapping_log, now, notified, ui, directory, records, console, writes, points, skew, lanes, auth>>
\* insert into swapping_log (id is a sequence)
StorageSwapInsert(m) ==
  /\ m \in net /\ m.phase = "req" /\ m.kind = "swap"
  /\ Len(swapping_log) < MaxSwaps
  /\ swapping_log' = Append(swapping_log, [m.row EXCEPT !.id = Len(swapping_log) + 1])
  /\ net' = (net \ {m}) \cup {[m EXCEPT !.phase = "resp"]}
  /\ notified' = Notify(m.row.equipment_id, "swapping_log")
  /\ UNCHANGED <<charging_logs, now, ui, directory, records, console, writes, points, skew, lanes, auth>>
totalSwaps(e) == Cardinality({i \in 1..Len(swapping_log) : swapping_log[i].equipment_id = e})

StorageCount(m) ==
  /\ m \in net /\ m.phase = "req" /\ m.kind = "count"
  /\ net' = (net \ {m}) \cup {[m EXCEPT !.phase = "resp", !.count = totalSwaps(m.eq)]}
  /\ UNCHANGED <<charging_logs, swapping_log, now, notified, ui, directory, records, console, writes, points, skew, lanes, auth>>
(* --------------------------- the systems checked ----------------------- *)
\* the start form of a dashboard and the startCharging call it leads to
StartFlow(c) ==
  \/ \E p \in PointIds : selectChargingPoint(c, p)
  \/ typeMeterReading(c, <<"-", "5">>)
  \/ handleStartChargingClick(c)
  \/ confirmStartCharging(c)
  \/ \E m \in net : startCharging(c, m)
  \/ \E m \in net : startChargingDone(c, m)

StopFlow(c) ==
  \/ handleStopChargingClick(c)
  \/ confirmStopCharging(c)
  \/ \E m \in net : stopChargingDone(c, m)

Dashboard(c) ==
  \/ fetchEquipment(c)
  \/ StartFlow(c)
  \/ StopFlow(c)
  \/ onChargingLogsChange(c)
  \/ \E m \in net : fetchCurrentSessionDone(c, m)

Swapping(c) ==
  \/ typeSwapMeterReading(c, <<"-", "5">>)
  \/ handleRecordSwapClick(c)
  \/ confirmRecordSwap(c)
  \/ \E m \in net : recordBatterySwapDone(c, m)
  \/ onSwappingLogChange(c)
  \/ \E m \in net : fetchTotalSwapCountDone(c, m)

Card(c) ==
  \/ fetchCurrentLog(c)
  \/ \E m \in net : fetchCurrentLogDone(c, m)
  \/ cardStartCharging(c)
  \/ cardStopCharging(c)
  \/ \E m \in net : cardWriteDone(c, m)

Storage ==
  \/ \E m \in net : StorageSelectNewest(m)
  \/ \E m \in net : StorageInsert(m)
  \/ \E m \in net : StorageUpdate(m)

SwapStorage ==
  \/ \E m \in net : StorageSwapInsert(m)
  \/ \E m \in net : StorageCount(m)

(* --------------- Dashboard: user management, equipment records ---------- *)
Roles == {"super_admin", "admin", "user"}
\* auth ids; n1 is free until supabase.auth.signUp hands it out
Accounts == {"s1", "a1", "w1", "n1"}
\* the accounts with a browser session
Actors == {"s1", "a1"}

NoProfile == [role |-> "", location_id |-> NullId, is_active |-> FALSE]
NoEdit == [id |-> NullId, role |-> "", location_id |-> NullId]
NoConsole == [profile |-> NoProfile, editingUser |-> NoEdit]

\* Charging_Points ids; p3 is free until a point is added
PointSlots == PointIds \cup {"p3"}
PointNames == {"A", "B"}
NoPoint == [Locations |-> NullId, Charging_Points_Name |-> ""]

InitManagement ==
  /\ directory = [a \in Accounts |->
                    CASE a = "s1" -> [role |-> "super_admin", location_id |-> NullId,
                                      is_active |-> TRUE]
                      [] a = "a1" -> [role |-> "admin", location_id |-> "L1", is_active |-> TRUE]
                      [] a = "w1" -> [role |-> "user", location_id |-> "L1", is_active |-> TRUE]
                      [] OTHER    -> NoProfile]
  /\ records = EquipmentIds
  /\ console = [a \in Actors |-> NoConsole]
  /\ writes = 0
  /\ points = [p \in PointSlots |->
                 IF p \in PointIds
                 THEN [Locations |-> Charging_Points[p].Locations, Charging_Points_Name |-> "A"]
                 ELSE NoPoint]

\* row-level security: the acting account is a super_admin and active
IsSuperAdmin(a) == directory[a].role = "super_admin" /\ directory[a].is_active

\* "Admins can ... in their location": up.role = 'admin', active, up.location_id = the row's
IsAdminOf(a, location) ==
  /\ directory[a].role = "admin" /\ directory[a].is_active
  /\ location # NullId /\ directory[a].location_id = location

\* select policies on user_profiles
ProfileSelectPolicy(a, t) ==
  /\ directory[t] # NoProfile
  /\ \/ IsSuperAdmin(a)
     \/ IsAdminOf(a, directory[t].location_id)
     \/ a = t

\* insert policy on user_profiles: "Super admin can insert user profiles"
ProfileInsertPolicy(a) == IsSuperAdmin(a)

\* update policies on user_profiles: the USING clauses, on the row as stored
ProfileUpdateUsing(a, t) ==
  \/ IsSuperAdmin(a)
  \/ a = t
  \/ IsAdminOf(a, directory[t].location_id) /\ directory[t].role = "user"

\* update policies on user_profiles: the WITH CHECK clauses, on the row as written
ProfileUpdateCheck(a, t, row) ==
  \/ IsSuperAdmin(a)
  \/ a = t
  \/ IsAdminOf(a, row.location_id) /\ row.role = "user"

\* mutant: the delete policy the first schema gave to admins as well
DeletePolicy_adminsToo(a, e) ==
  \/ IsSuperAdmin(a)
  \/ IsAdminOf(a, bet_records[e].location_id)

\* delete policy on bet_records: "Only super admin can delete bet records"
DeletePolicy(a, e) == IsSuperAdmin(a)

\* AppContent: a session holds the profile as it was resolved at sign-in
signIn(a) ==
  /\ console[a].profile = NoProfile
  /\ directory[a] # NoProfile
  /\ console' = [console EXCEPT ![a] = [NoConsole EXCEPT !.profile = directory[a]]]
  /\ UNCHANGED <<charging_logs, swapping_log, now, net, notified, ui, directory, records, writes, points, skew, lanes, auth>>
signOut(a) ==
  /\ console[a].profile # NoProfile
  /\ console' = [console EXCEPT ![a] = NoConsole]
  /\ UNCHANGED <<charging_logs, swapping_log, now, net, notified, ui, directory, records, writes, points, skew, lanes, auth>>
\* AppContent: admin and super_admin get the Dashboard
DashboardShown(a) == console[a].profile.role \in {"admin", "super_admin"}

\* fetchUsers: the rows the policies show, narrowed by the query of an admin
UsersListed(a, t) ==
  /\ ProfileSelectPolicy(a, t)
  /\ console[a].profile.role = "admin" /\ console[a].profile.location_id # NullId
     => /\ directory[t].location_id = console[a].profile.location_id
        /\ directory[t].role = "user"

\* the Edit button of a listed row
EditShown(a, row) ==
  \/ /\ console[a].profile.role = "admin"
     /\ row.role = "user"
     /\ row.location_id = console[a].profile.location_id
  \/ console[a].profile.role = "super_admin"

\* fetchUsers, then Edit on a listed row: the form keeps the row as it was listed
setEditingUser(a, t) ==
  /\ DashboardShown(a)
  /\ console[a].editingUser = NoEdit
  /\ UsersListed(a, t)
  /\ EditShown(a, directory[t])
  /\ console' = [console EXCEPT ![a].editingUser =
                    [id |-> t, role |-> directory[t].role,
                     location_id |-> directory[t].location_id]]
  /\ UNCHANGED <<charging_logs, swapping_log, now, net, notified, ui, directory, records, writes, points, skew, lanes, auth>>
\* what the role and location selects of a form can hold when it is submitted: they are
\* rendered for a super_admin only, and the location is required unless the role is
\* super_admin
FormValues(a, role, location, shownRole, shownLocation) ==
  IF console[a].profile.role = "super_admin"
  THEN /\ role \in Roles
       /\ IF role = "super_admin" THEN location = shownLocation
          ELSE location \in Locations
  ELSE role = shownRole /\ location = shownLocation

\* mutant: the location written as the form holds it, whatever the role
WrittenLocation_asTyped(role, location) == location

\* location_id: formData.role === 'super_admin' ? null : formData.location_id
WrittenLocation(role, location) == IF role = "super_admin" THEN NullId ELSE location

\* the checks of EditUserForm.handleSubmit that throw before the update
EditError(a) ==
  IF /\ console[a].profile.role = "admin"
     /\ \/ console[a].editingUser.role # "user"
        \/ console[a].editingUser.location_id # console[a].profile.location_id
  THEN "You do not have permission to edit this user."
  ELSE ""

\* the row EditUserForm.handleSubmit asks the storage to write
EditUpdates(a, row, role, location, active) ==
  IF console[a].profile.role = "super_admin"
  THEN [role |-> role, location_id |-> WrittenLocation(role, location), is_active |-> active]
  ELSE [row EXCEPT !.is_active = active]

\* EditUserForm.handleSubmit with the update it awaits
EditUserForm_handleSubmit(a, role, location, active) ==
  /\ console[a].editingUser # NoEdit
  /\ writes < MaxWrites
  /\ FormValues(a, role, location, console[a].editingUser.role,
                console[a].editingUser.location_id)
  /\ LET t == console[a].editingUser.id
         row == EditUpdates(a, directory[t], role, location, active)
     IN IF EditError(a) # ""
        THEN UNCHANGED <<directory, console, writes>>
        ELSE /\ writes' = writes + 1
             /\ IF /\ directory[t] # NoProfile
                   /\ ProfileUpdateUsing(a, t)
                   /\ ProfileUpdateCheck(a, t, row)
                THEN /\ directory' = [directory EXCEPT ![t] = row]
                     /\ console' = [console EXCEPT ![a].editingUser = NoEdit]
                ELSE UNCHANGED <<directory, console>>
  /\ UNCHANGED <<charging_logs, swapping_log, now, net, notified, ui, records, points, skew, lanes, auth>>
\* the checks of AddUserForm.handleSubmit that throw before signUp
AddError(a, role) ==
  IF console[a].profile.role = "admin"
  THEN IF role # "user" THEN "Admins can only create users, not other admins." ELSE ""
  ELSE IF console[a].profile.role # "super_admin"
       THEN "You do not have permission to create users."
       ELSE ""

\* AddUserForm.handleSubmit with signUp and the insert it awaits
AddUserForm_handleSubmit(a, role, location) ==
  /\ DashboardShown(a)
  /\ writes < MaxWrites
  /\ FormValues(a, role, location, "user", console[a].profile.location_id)
  /\ IF AddError(a, role) # ""
     THEN UNCHANGED <<directory, writes>>
     ELSE /\ \E n \in Accounts :
               /\ directory[n] = NoProfile
               /\ writes' = writes + 1
               /\ IF ProfileInsertPolicy(a)
                  THEN /\ directory' =
                            [directory EXCEPT ![n] =
                               [role |-> role,
                                location_id |->
                                  WrittenLocation(role,
                                     IF console[a].profile.role = "admin"
                                     THEN console[a].profile.location_id ELSE location),
                                is_active |-> TRUE]]
                  ELSE directory' = directory
  /\ UNCHANGED <<charging_logs, swapping_log, now, net, notified, ui, records, console, points, skew, lanes, auth>>
\* the Delete button of a listed equipment row, and handleDelete with the delete it awaits
handleDelete(a, e) ==
  /\ DashboardShown(a)
  /\ console[a].profile.role = "super_admin"
  /\ e \in EquipmentIds
  /\ records' = IF DeletePolicy(a, e) THEN records \ {e} ELSE records
  /\ UNCHANGED <<charging_logs, swapping_log, now, net, notified, ui, directory, console, writes, points, skew, lanes, auth>>
Management(a) ==
  \/ signIn(a)
  \/ signOut(a)
  \/ \E t \in Accounts : setEditingUser(a, t)
  \/ \E role \in Roles, location \in Locations \cup {NullId}, active \in BOOLEAN :
        EditUserForm_handleSubmit(a, role, location, active)
  \/ \E role \in Roles, location \in Locations \cup {NullId} :
        AddUserForm_handleSubmit(a, role, location)

\* the equipment records tab, with the user edits that change who may delete
Records(a) ==
  \/ signIn(a)
  \/ signOut(a)
  \/ \E t \in Accounts : setEditingUser(a, t)
  \/ \E role \in Roles, location \in Locations \cup {NullId}, active \in BOOLEAN :
        EditUserForm_handleSubmit(a, role, location, active)
  \/ \E e \in EquipmentIds : handleDelete(a, e)

(* ------------------------------ AuthProvider --------------------------- *)
\* the accounts that sign in at this tab
AuthUsers == {"a1", "w1"}
MaxEvents == 4     \* auth-state events raised after the page has loaded
MaxFetches == 2    \* fetchProfile calls under way at once

RESEND_COOLDOWN_MS == 60000
MAX_RESEND_ATTEMPTS == 3
\* Date.now() advances in steps of TickMs from BootTime, the time the page was loaded
TickMs == RESEND_COOLDOWN_MS \div 2
BootTime == 2 * RESEND_COOLDOWN_MS

\* useState initial values; getSession() is pending, and the provider raises
\* INITIAL_SESSION for the session s it has stored
AuthMounted(s) ==
  [user |-> NullId, profile |-> NullId, loading |-> TRUE,
   resendState |-> [lastAttempt |-> 0, attempts |-> 0],
   boot |-> TRUE, session |-> s, events |-> <<s>>, raised |-> 0, fetches |-> {},
   clock |-> BootTime, sent |-> <<>>, calls |-> {},
   page |-> [error |-> "", loading |-> FALSE, resendLoading |-> FALSE]]

\* a tab whose provider has loaded with no stored session
AuthLoaded ==
  [AuthMounted(NullId) EXCEPT !.loading = FALSE, !.boot = FALSE, !.events = <<>>]

\* fetchProfile(userId) up to its await: one select on user_profiles
FetchIds == 1..MaxFetches
FreeFetch == {k \in FetchIds : \A f \in auth.fetches : f.id # k}
ProfileFetch(userId) == [id |-> CHOOSE k \in FreeFetch : TRUE, userId |-> userId]

\* AppContent: the LoginPage shows unless loading, or user and profile are both set
LoginPageShown == ~auth.loading /\ (auth.user = NullId \/ auth.profile = NullId)
AppShown == ~auth.loading /\ auth.user # NullId /\ auth.profile # NullId

\* supabase.auth.getSession().then(...)
getSessionDone ==
  /\ auth.boot
  /\ IF auth.session # NullId
     THEN /\ FreeFetch # {}
          /\ auth' = [auth EXCEPT !.boot = FALSE, !.user = auth.session,
                                  !.fetches = @ \cup {ProfileFetch(auth.session)}]
     ELSE auth' = [auth EXCEPT !.boot = FALSE, !.user = NullId, !.loading = FALSE]
  /\ UNCHANGED <<charging_logs, swapping_log, now, net, notified, ui, directory, records, console, writes, points, skew, lanes>>

\* the onAuthStateChange callback, for the oldest event not yet delivered
onAuthStateChange ==
  /\ auth.events # <<>>
  /\ LET u == Head(auth.events)
     IN IF u # NullId
        THEN /\ FreeFetch # {}
             /\ auth' = [auth EXCEPT !.events = Tail(@), !.user = u,
                                     !.fetches = @ \cup {ProfileFetch(u)}]
        ELSE auth' = [auth EXCEPT !.events = Tail(@), !.user = NullId,
                                  !.profile = NullId, !.loading = FALSE]
  /\ UNCHANGED <<charging_logs, swapping_log, now, net, notified, ui, directory, records, console, writes, points, skew, lanes>>

\* fetchProfile resumes: setProfile(data) or the logged error, then setLoading(false)
fetchProfileDone(f, ok) ==
  /\ f \in auth.fetches
  /\ auth' = [auth EXCEPT !.fetches = @ \ {f},
                          !.profile = IF ok THEN f.userId ELSE @,
                          !.loading = FALSE]
  /\ UNCHANGED <<charging_logs, swapping_log, now, net, notified, ui, directory, records, console, writes, points, skew, lanes>>

\* LoginPage.handleSubmit with credentials the identity provider accepts: SIGNED_IN
signInWithPassword(u) ==
  /\ LoginPageShown
  /\ ~auth.page.loading
  /\ auth.raised < MaxEvents
  /\ auth' = [auth EXCEPT !.session = u, !.events = Append(@, u), !.raised = @ + 1,
                          !.page.error = ""]
  /\ UNCHANGED <<charging_logs, swapping_log, now, net, notified, ui, directory, records, console, writes, points, skew, lanes>>

\* the Sign Out button of the dashboards: supabase.auth.signOut(), SIGNED_OUT
auth_signOut ==
  /\ AppShown
  /\ auth.session # NullId
  /\ auth.raised < MaxEvents
  /\ auth' = [auth EXCEPT !.session = NullId, !.events = Append(@, NullId), !.raised = @ + 1]
  /\ UNCHANGED <<charging_logs, swapping_log, now, net, notified, ui, directory, records, console, writes, points, skew, lanes>>

\* the identity provider renews the token of the session: TOKEN_REFRESHED
tokenRefreshed ==
  /\ auth.session # NullId
  /\ auth.raised < MaxEvents
  /\ auth' = [auth EXCEPT !.events = Append(@, auth.session), !.raised = @ + 1]
  /\ UNCHANGED <<charging_logs, swapping_log, now, net, notified, ui, directory, records, console, writes, points, skew, lanes>>

AuthProvider ==
  \/ getSessionDone
  \/ onAuthStateChange
  \/ \E f \in auth.fetches, ok \in BOOLEAN : fetchProfileDone(f, ok)
  \/ \E u \in AuthUsers : signInWithPassword(u)
  \/ auth_signOut
  \/ tokenRefreshed

(* ------------------- AuthProvider: confirmation e-mails ---------------- *)
MaxTicks == 4      \* steps of TickMs the clock of the tab advances

\* the messages LoginPage shows; it offers the resend button when
\* error.includes('confirmation email'), which is case-sensitive
SentMsg == "Confirmation email sent!"
CheckMsg == "Please check your email to confirm your account. Confirmation email sent!"
WaitMsg == "Please wait before requesting another confirmation email."
MaxMsg == "Maximum resend attempts reached. Please contact support."
TooManyMsg == "Too many confirmation email requests."
FailedMsg == "Failed to send confirmation email."
InvalidMsg == "Invalid email or password"
IncludesConfirmationEmail(error) == error \in {WaitMsg, TooManyMsg, FailedMsg}

\* canResendEmail(), on the resendState of the render the caller closed over
canResendEmail(resendState, time) ==
  /\ resendState.attempts < MAX_RESEND_ATTEMPTS
  /\ time - resendState.lastAttempt >= RESEND_COOLDOWN_MS

\* the error handleEmailResend throws when canResendEmail() is false
ResendRefused(resendState) ==
  IF resendState.attempts >= MAX_RESEND_ATTEMPTS THEN MaxMsg ELSE WaitMsg

\* handleEmailResend past its test: setResendState(prev => ...), supabase.auth.resend()
ResendSent(a) ==
  [a EXCEPT !.resendState = [lastAttempt |-> a.clock, attempts |-> @.attempts + 1],
            !.sent = Append(@, a.clock)]

\* time passes at the tab
tick ==
  /\ auth.clock < BootTime + MaxTicks * TickMs
  /\ auth' = [auth EXCEPT !.clock = @ + TickMs]
  /\ UNCHANGED <<charging_logs, swapping_log, now, net, notified, ui, directory, records, console, writes, points, skew, lanes>>

\* LoginPage.handleSubmit up to the await inside signIn: setError(''), setLoading(true),
\* signInWithPassword() for an account the identity provider will not sign in
handleSubmit ==
  /\ LoginPageShown
  /\ ~auth.page.loading
  /\ auth' = [auth EXCEPT !.page.error = "", !.page.loading = TRUE,
                          !.calls = @ \cup {[kind |-> "signIn", closure |-> auth.resendState]}]
  /\ UNCHANGED <<charging_logs, swapping_log, now, net, notified, ui, directory, records, console, writes, points, skew, lanes>>

\* signIn resumes with 'Email not confirmed' (notConfirmed) or 'Invalid login
\* credentials'; for the former handleEmailResend runs up to its await
signInFailed(call, notConfirmed) ==
  /\ call \in auth.calls /\ call.kind = "signIn"
  /\ IF ~notConfirmed
     THEN auth' = [auth EXCEPT !.calls = @ \ {call}, !.page.error = InvalidMsg,
                               !.page.loading = FALSE]
     ELSE IF ~canResendEmail(call.closure, auth.clock)
     THEN auth' = [auth EXCEPT !.calls = @ \ {call},
                               !.page.error = ResendRefused(call.closure),
                               !.page.loading = FALSE]
     ELSE auth' = [ResendSent(auth) EXCEPT
                     !.calls = (@ \ {call}) \cup {[call EXCEPT !.kind = "signInResend"]}]
  /\ UNCHANGED <<charging_logs, swapping_log, now, net, notified, ui, directory, records, console, writes, points, skew, lanes>>

\* the resend button of LoginPage: setResendLoading(true), resendConfirmationEmail()
\* up to the await inside handleEmailResend
resendConfirmationEmail ==
  /\ LoginPageShown
  /\ IncludesConfirmationEmail(auth.page.error)
  \* disabled={!canResendEmail() || resendLoading}
  /\ canResendEmail(auth.resendState, auth.clock)
  /\ ~auth.page.resendLoading
  /\ auth' = [ResendSent(auth) EXCEPT
                !.page.resendLoading = TRUE,
                !.calls = @ \cup {[kind |-> "resend", closure |-> auth.resendState]}]
  /\ UNCHANGED <<charging_logs, swapping_log, now, net, notified, ui, directory, records, console, writes, points, skew, lanes>>

\* supabase.auth.resend() answers: sent, 429, or another error
ResendOutcomes == {"sent", "429", "failed"}
ResendMessage(kind, outcome) ==
  IF outcome = "429" THEN TooManyMsg
  ELSE IF outcome = "failed" THEN FailedMsg
  ELSE IF kind = "resend" THEN SentMsg ELSE CheckMsg

handleEmailResendDone(call, outcome) ==
  /\ call \in auth.calls /\ call.kind \in {"resend", "signInResend"}
  /\ auth' = [auth EXCEPT !.calls = @ \ {call},
                          !.page.error = ResendMessage(call.kind, outcome),
                          !.page.loading = IF call.kind = "signInResend" THEN FALSE ELSE @,
                          !.page.resendLoading = IF call.kind = "resend" THEN FALSE ELSE @]
  /\ UNCHANGED <<charging_logs, swapping_log, now, net, notified, ui, directory, records, console, writes, points, skew, lanes>>

Resend ==
  \/ tick
  \/ handleSubmit
  \/ \E call \in auth.calls, notConfirmed \in BOOLEAN : signInFailed(call, notConfirmed)
  \/ resendConfirmationEmail
  \/ \E call \in auth.calls, outcome \in ResendOutcomes : handleEmailResendDone(call, outcome)

(* ----------------------- Dashboard: charging points --------------------- *)
\* the tab renders for admin and super_admin, by the profile the session holds
ChargingPointsShown(a) == console[a].profile.role \in {"admin", "super_admin"}

\* fetchChargingPoints: run when the held profile has a location, .eq('Locations', it)
PointsListed(a, p) ==
  /\ points[p] # NoPoint
  /\ console[a].profile.location_id # NullId
  /\ points[p].Locations = console[a].profile.location_id

\* handleAdd, then handleSave with the insert it awaits
ChargingPoints_handleAddSave(a, name) ==
  /\ ChargingPointsShown(a)
  /\ name \in PointNames
  /\ console[a].profile.location_id # NullId
  /\ \E p \in PointSlots :
        /\ points[p] = NoPoint
        /\ points' = [points EXCEPT ![p] = [Locations |-> console[a].profile.location_id,
                                            Charging_Points_Name |-> name]]
  /\ UNCHANGED <<charging_logs, swapping_log, now, net, notified, ui, directory, records, console, writes, skew, lanes, auth>>
\* handleEdit on a listed point, then handleSave with the update it awaits:
\* .eq('id', editingId).eq('Locations', profile.location_id)
ChargingPoints_handleEditSave(a, p, name) ==
  /\ ChargingPointsShown(a)
  /\ name \in PointNames
  /\ PointsListed(a, p)
  /\ points' = [points EXCEPT ![p].Charging_Points_Name = name]
  /\ UNCHANGED <<charging_logs, swapping_log, now, net, notified, ui, directory, records, console, writes, skew, lanes, auth>>
\* the Delete button of a listed point (super_admin only) and handleDelete:
\* .eq('id', id).eq('Locations', profile?.location_id)
ChargingPoints_handleDelete(a, p) ==
  /\ ChargingPointsShown(a)
  /\ console[a].profile.role = "super_admin"
  /\ PointsListed(a, p)
  /\ points' = [points EXCEPT ![p] = NoPoint]
  /\ UNCHANGED <<charging_logs, swapping_log, now, net, notified, ui, directory, records, console, writes, skew, lanes, auth>>
\* the charging points tab, with the user edits that change who the session's account is
ChargingPoints(a) ==
  \/ signIn(a)
  \/ signOut(a)
  \/ \E t \in Accounts : setEditingUser(a, t)
  \/ \E role \in Roles, location \in Locations \cup {NullId}, active \in BOOLEAN :
        EditUserForm_handleSubmit(a, role, location, active)
  \/ \E name \in PointNames : ChargingPoints_handleAddSave(a, name)
  \/ \E p \in PointSlots, name \in PointNames : ChargingPoints_handleEditSave(a, p, name)

(* ----------------------- Dashboard: the lists it retrieves --------------- *)
\* the location filter of the super_admin's drop-down
LocationChoices == Locations \cup {"all"}

\* select policies on bet_records and on charging_logs: super admin, or the
\* caller's stored location is the row's and the caller is active
LocationSelectPolicy(a, location) ==
  \/ IsSuperAdmin(a)
  \/ /\ directory[a].is_active
     /\ directory[a].location_id # NullId
     /\ directory[a].location_id = location

\* Dashboard.fetchBETRecords
fetchBETRecords(a, selectedLocation) ==
  {e \in records :
     /\ LocationSelectPolicy(a, bet_records[e].location_id)
     /\ IF console[a].profile.role = "admin" /\ console[a].profile.location_id # NullId
        THEN bet_records[e].location_id = console[a].profile.location_id
        ELSE console[a].profile.role = "super_admin" /\ selectedLocation # "all"
             => bet_records[e].location_id = selectedLocation}

\* fetchChargingLogs of the charging tab (fetchActiveChargingCount filters the same way)
fetchChargingLogs(a, selectedLocation) ==
  {r \in Rows(charging_logs) :
     /\ LocationSelectPolicy(a, r.location_id)
     /\ IF console[a].profile.role = "admin"
        THEN r.location_id = console[a].profile.location_id
        ELSE selectedLocation # "all" => r.location_id = selectedLocation}

\* SwappingControl.fetchSwappingLogs; the repository holds no policy for swapping_log
fetchSwappingLogs(a, selectedLocation) ==
  {r \in Rows(swapping_log) :
     IF console[a].profile.role = "admin"
     THEN console[a].profile.location_id # NullId
          => r.location_id = console[a].profile.location_id
     ELSE console[a].profile.role = "super_admin" /\ selectedLocation # "all"
          => r.location_id = selectedLocation}

\* ledgers as earlier work left them: one sealed session and one swap per location
LedgerRows ==
  /\ charging_logs =
       <<[NullSession EXCEPT !.id = 1, !.equipment_id = "e1", !.user_id = "u1",
                             !.location_id = "L1", !.charging_point_id = "p1",
                             !.start_time = 1, !.end_time = 1],
         [NullSession EXCEPT !.id = 2, !.equipment_id = "e3", !.user_id = "x2",
                             !.location_id = "L2", !.charging_point_id = "p2",
                             !.start_time = 1, !.end_time = 1]>>
  /\ swapping_log =
       <<[NullSwap EXCEPT !.id = 1, !.User_id = "u1", !.location_id = "L1",
                          !.equipment_id = "e1", !.Count = "1", !.Meter_reading = <<"5">>],
         [NullSwap EXCEPT !.id = 2, !.User_id = "x2", !.location_id = "L2",
                          !.equipment_id = "e3", !.Count = "1", !.Meter_reading = <<"5">>]>>

\* the sessions whose lists are read, and the user edits that move their accounts
Lists(a) ==
  \/ signIn(a)
  \/ signOut(a)
  \/ \E t \in Accounts : setEditingUser(a, t)
  \/ \E role \in Roles, location \in Locations \cup {NullId}, active \in BOOLEAN :
        EditUserForm_handleSubmit(a, role, location, active)

\* empty ledgers, nothing in flight, whatever the device clocks
InitUnskewed ==
  /\ charging_logs = <<>>
  /\ swapping_log = <<>>
  /\ now = 1
  /\ net = {}
  /\ notified = [c \in Clients |-> {}]
  /\ InitManagement

InitStorage ==
  /\ InitUnskewed
  /\ skew = Synchronised
  /\ lanes = SingleLane
  /\ auth = AuthLoaded

\* Spec: two operators of location L1, each with a dashboard opened on EQ-001
Init ==
  /\ InitStorage
  /\ \E u \in {"u1", "u2"} :
       ui = [c \in Clients |-> IF c = "c1" THEN NewClient("u1", "UserDashboard", "EQ-001", NullId)
                                ELSE NewClient(u, "UserDashboard", "EQ-001", NullId)]

Next ==
  \/ \E c \in Clients : Dashboard(c)
  \/ Storage

Spec == Init /\ [][Next]_vars

\* SpecClocks: operator u1 on two devices whose clocks need not agree
InitClocks ==
  /\ InitUnskewed
  \* the device of c1 is the reference
  /\ skew \in {s \in [Clients -> 0..MaxSkew] : s["c1"] = 0}
  /\ lanes = SingleLane
  /\ auth = AuthLoaded
  /\ ui = [c \in Clients |-> NewClient("u1", "UserDashboard", "EQ-001", NullId)]

SpecClocks == InitClocks /\ [][Next]_vars

\* SpecTwice: one dashboard of operator u1 whose calls overlap: a second call can be
\* sent while the first is under way
InitTwice ==
  /\ InitUnskewed
  /\ skew = Synchronised
  /\ lanes = [c \in Clients |-> MaxInflight + 1]
  /\ auth = AuthLoaded
  /\ ui = [c \in Clients |-> NewClient("u1", "UserDashboard", "EQ-001", NullId)]

NextTwice ==
  \/ Dashboard("c1")
  \/ Storage

SpecTwice == InitTwice /\ [][NextTwice]_vars

\* SpecCard: operator u1 on a dashboard, any profile on a ChargingControl card
InitCard ==
  /\ InitStorage
  /\ \E u \in Users, e \in EquipmentIds :
       /\ e \in CardEquipment(u)
       /\ ui = [c \in Clients |->
                  IF c = "c1" THEN NewClient("u1", "UserDashboard", "EQ-001", NullId)
                  ELSE NewClient(u, "ChargingControl", "", e)]

NextCard ==
  \/ Dashboard("c1")
  \/ Card("c2")
  \/ Storage
  \/ \E m \in net : StorageSelectSingle(m)

SpecCard == InitCard /\ [][NextCard]_vars

\* SpecScope: one dashboard of an operator with charging access, with swapping access
\* or with neither, opened on a unit of another location or with no EquipmentNo;
\* the operator picks equipment, starts charging and records swaps
InitScope ==
  /\ InitStorage
  /\ \E u \in {"u2", "u3", "u4"}, url \in {"", "EQ-003"} :
       ui = [c \in Clients |-> NewClient(u, "UserDashboard", url, NullId)]

NextScope ==
  \/ fetchEquipment("c1")
  \/ \E e \in EquipmentIds \cup {NullId} : selectEquipment("c1", e)
  \/ StartFlow("c1")
  \/ \E m \in net : fetchCurrentSessionDone("c1", m)
  \/ Swapping("c1")
  \/ \E m \in net : StorageSelectNewest(m)
  \/ \E m \in net : StorageInsert(m)
  \/ SwapStorage

SpecScope == InitScope /\ [][NextScope]_vars

\* SpecMeter: one operator, with charging access or with swapping access, types into
\* the meter-reading box key by key (or clears it), starts charging or records swaps
InitMeter ==
  /\ InitStorage
  /\ \E u \in {"u2", "u4"} :
       ui = [c \in Clients |-> NewClient(u, "UserDashboard", "EQ-001", NullId)]

NextMeter ==
  \/ fetchEquipment("c1")
  \/ \E m \in net : fetchCurrentSessionDone("c1", m)
  \/ \E p \in PointIds : selectChargingPoint("c1", p)
  \/ \E ch \in Alphabet : /\ Len(ui["c1"].meterReading) < MaxLen
                          /\ typeMeterReading("c1", Append(ui["c1"].meterReading, ch))
  \/ typeMeterReading("c1", <<>>)
  \/ handleStartChargingClick("c1")
  \/ confirmStartCharging("c1")
  \/ \E m \in net : startCharging("c1", m)
  \/ \E m \in net : startChargingDone("c1", m)
  \/ \E ch \in Alphabet : /\ Len(ui["c1"].swapMeterReading) < MaxLen
                          /\ typeSwapMeterReading("c1", Append(ui["c1"].swapMeterReading, ch))
  \/ typeSwapMeterReading("c1", <<>>)
  \/ handleRecordSwapClick("c1")
  \/ confirmRecordSwap("c1")
  \/ \E m \in net : recordBatterySwapDone("c1", m)
  \/ onSwappingLogChange("c1")
  \/ \E m \in net : fetchTotalSwapCountDone("c1", m)
  \/ \E m \in net : StorageSelectNewest(m)
  \/ \E m \in net : StorageInsert(m)
  \/ SwapStorage

SpecMeter == InitMeter /\ [][NextMeter]_vars

\* SpecStop: the ledger holds two open sessions of EQ-001 (the outcome of two racing
\* starts), each client still holds the session it started; the operators stop them
RacedSession(id, u, t) ==
  [id |-> id, equipment_id |-> "e1", user_id |-> u, location_id |-> "L1",
   charging_point_id |-> "p1", Meter_reading |-> <<"5">>, start_time |-> t,
   end_time |-> NullTime]

RacedClient(u, session) ==
  [NewClient(u, "UserDashboard", "EQ-001", "e1") EXCEPT
     !.effectPending = FALSE, !.currentSession = session,
     !.selectedChargingPoint = "p1", !.meterReading = <<"5">>]

InitStop ==
  /\ \E u \in {"u1", "u2"}, t \in 1..2 :
       /\ charging_logs = <<RacedSession(1, "u1", 1), RacedSession(2, u, t)>>
       /\ now = t
       /\ ui = [c \in Clients |-> IF c = "c1" THEN RacedClient("u1", RacedSession(1, "u1", 1))
                                  ELSE RacedClient(u, RacedSession(2, u, t))]
  /\ swapping_log = <<>>
  /\ net = {}
  /\ notified = [c \in Clients |-> {"charging_logs", "swapping_log"}]
  /\ InitManagement
  /\ skew = Synchronised
  /\ lanes = SingleLane
  /\ auth = AuthLoaded

NextStop ==
  \/ \E c \in Clients : StopFlow(c)
  \/ \E c \in Clients : onChargingLogsChange(c)
  \/ \E c \in Clients, m \in net : fetchCurrentSessionDone(c, m)
  \/ \E m \in net : StorageSelectNewest(m)
  \/ \E m \in net : StorageUpdate(m)

SpecStop == InitStop /\ [][NextStop]_vars

\* SpecSwap: two operators with swapping access have EQ-001 selected (the lookup and the
\* session fetch have returned, the first count fetch is due) and record swaps concurrently
SwapClient(u) ==
  [NewClient(u, "UserDashboard", "EQ-001", "e1") EXCEPT !.effectPending = FALSE]

InitSwap ==
  /\ charging_logs = <<>>
  /\ swapping_log = <<>>
  /\ now = 1
  /\ net = {}
  /\ notified = [c \in Clients |-> {"swapping_log"}]
  /\ ui = [c \in Clients |-> IF c = "c1" THEN SwapClient("u4") ELSE SwapClient("u1")]
  /\ InitManagement
  /\ skew = Synchronised
  /\ lanes = SingleLane
  /\ auth = AuthLoaded

NextSwap ==
  \/ \E c \in Clients : Swapping(c)
  \/ SwapStorage

SpecSwap == InitSwap /\ [][NextSwap]_vars

\* SpecBoth: one operator with both access flags has EQ-001 selected, a charging point
\* chosen and a reading typed, and starts and stops charging and records swaps in any order
InitBoth ==
  /\ charging_logs = <<>>
  /\ swapping_log = <<>>
  /\ now = 1
  /\ net = {}
  /\ notified = [c \in Clients |-> {"swapping_log"}]
  /\ ui = [c \in Clients |->
             [RacedClient("u1", NullSession) EXCEPT !.swapMeterReading = <<"5">>]]
  /\ InitManagement
  /\ skew = Synchronised
  /\ lanes = SingleLane
  /\ auth = AuthLoaded

NextBoth ==
  \/ handleStartChargingClick("c1")
  \/ confirmStartCharging("c1")
  \/ \E m \in net : startCharging("c1", m)
  \/ \E m \in net : startChargingDone("c1", m)
  \/ StopFlow("c1")
  \/ handleRecordSwapClick("c1")
  \/ confirmRecordSwap("c1")
  \/ \E m \in net : recordBatterySwapDone("c1", m)
  \/ onSwappingLogChange("c1")
  \/ \E m \in net : fetchTotalSwapCountDone("c1", m)
  \/ Storage
  \/ SwapStorage

SpecBoth == InitBoth /\ [][NextBoth]_vars

\* SpecFail: the same dashboard, and any call may fail on the way
InitFail ==
  /\ InitUnskewed
  /\ skew = Synchronised
  /\ lanes = SingleLane
  /\ auth = AuthLoaded
  /\ ui = [c \in Clients |->
             [RacedClient("u1", NullSession) EXCEPT !.swapMeterReading = <<"5">>]]

NextFail ==
  \/ handleStartChargingClick("c1")
  \/ confirmStartCharging("c1")
  \/ \E m \in net : startCharging("c1", m)
  \/ \E m \in net : startChargingDone("c1", m)
  \/ StopFlow("c1")
  \/ handleRecordSwapClick("c1")
  \/ confirmRecordSwap("c1")
  \/ \E m \in net : recordBatterySwapDone("c1", m)
  \/ \E m \in net : fetchTotalSwapCountDone("c1", m)
  \/ Storage
  \/ SwapStorage
  \/ \E m \in net : m.kind \in {"insert", "update"} /\ StorageFail(m)
  \/ \E m \in net : m.kind = "swap" /\ SwapFail(m)

SpecFail == InitFail /\ [][NextFail]_vars

\* SpecAdmin: a super_admin and an admin work the Dashboard: users and equipment records
InitAdmin ==
  /\ InitStorage
  /\ ui = [c \in Clients |-> NewClient("u3", "UserDashboard", "", NullId)]

NextAdmin == \E a \in Actors : Management(a)

SpecAdmin == InitAdmin /\ [][NextAdmin]_vars

\* SpecRecords: the same two sessions on the equipment records tab
NextRecords == \E a \in Actors : Records(a)

SpecRecords == InitAdmin /\ [][NextRecords]_vars

\* SpecPoints: the same two sessions on the charging points tab
NextPoints == \E a \in Actors : ChargingPoints(a)

SpecPoints == InitAdmin /\ [][NextPoints]_vars

\* SpecLists: the same two sessions reading the tabs of the Dashboard
InitLists ==
  /\ LedgerRows
  /\ now = 1
  /\ net = {}
  /\ notified = [c \in Clients |-> {}]
  /\ InitManagement
  /\ skew = Synchronised
  /\ lanes = SingleLane
  /\ auth = AuthLoaded
  /\ ui = [c \in Clients |-> NewClient("u3", "UserDashboard", "", NullId)]

NextLists == \E a \in Actors : Lists(a)

SpecLists == InitLists /\ [][NextLists]_vars

\* SpecAuth: one tab is loaded, with or without a stored session; its users sign in
\* and out, tokens are renewed, profile fetches answer in any order
InitAuth ==
  /\ InitUnskewed
  /\ skew = Synchronised
  /\ lanes = SingleLane
  /\ ui = [c \in Clients |-> NewClient("u3", "UserDashboard", "", NullId)]
  /\ \E s \in AuthUsers \cup {NullId} : auth = AuthMounted(s)

SpecAuth == InitAuth /\ [][AuthProvider]_vars

\* SpecResend: the LoginPage of a loaded tab; sign-ins fail, confirmation e-mails are
\* asked for, time passes
InitResend ==
  /\ InitUnskewed
  /\ skew = Synchronised
  /\ lanes = SingleLane
  /\ ui = [c \in Clients |-> NewClient("u3", "UserDashboard", "", NullId)]
  /\ auth = AuthLoaded

SpecResend == InitResend /\ [][Resend]_vars

(* ============================ properties =============================== *)
\* rows of equipment e with end_time = null, whoever looks
Open(e) == {r \in Rows(charging_logs) : r.equipment_id = e /\ r.end_time = NullTime}

StartKinds == {"insert", "ccInsert"}
StopKinds == {"update", "ccUpdate"}

\* the calls storage or a client takes up in this step, and the answers it produces
Taken == net \ net'
Produced == net' \ net
Answer(m) == {r \in Produced : r.client = m.client /\ r.slot = m.slot /\ r.kind = m.kind
                               /\ r.phase = "resp"}

(* C1: in every reachable state every equipment unit has at most one charging-session
   row with endTime = null, whatever the interleaving of start and stop calls. *)
C1_AtMostOneOpenSession ==
  \A e \in EquipmentIds : Cardinality(Open(e)) <= 1

(* C2: of the startCharging calls that are under way at the same time for one equipment
   unit, exactly one succeeds: no two of them are both answered with an inserted row. *)
C2_ExactlyOneStartWins ==
  \A m1, m2 \in net :
     /\ m1 # m2
     /\ m1.kind \in StartKinds /\ m2.kind \in StartKinds
     /\ m1.row.equipment_id = m2.row.equipment_id
     /\ m1.phase = "resp" /\ m2.phase = "resp"
     /\ m1.ok
     => ~m2.ok

(* C3: startCharging decides "already charging" from the storage state it reads during
   the call: it goes on to insert only if the open-session lookup it awaited found no
   open session, whatever currentSession the client had cached. *)
C3_StartDecidesFromStorage ==
  \A m \in net : m.kind = "insert" /\ m.phase = "req" => m.data = NullSession

(* C4: the cycle Idle -> Charging -> Idle.  With an up-to-date view (the session the
   client holds is the open session of the ledger): a start issued while a session is
   open is refused with the conflict; a stop of the open session that storage answers
   without error seals it and leaves the unit Idle; a start on an Idle unit that storage
   answers without error creates one open session with a fresh id and leaves every
   earlier row as it was. *)
C4_Refused ==
  \A m \in Taken :
     m.kind = "startFetch" /\ m.phase = "resp" /\ m.closure # NullSession
     => /\ ui'[m.client].error = "Equipment is already charging"
        /\ \A r \in Produced : r.client # m.client

C4_Released ==
  \A m \in Taken :
     /\ m.kind \in StopKinds /\ m.phase = "req"
     /\ Open(m.eq) = {m.closure}
     /\ \E r \in Answer(m) : r.ok
     => /\ Open(m.eq)' = {}
        /\ \E i \in 1..Len(charging_logs) :
              charging_logs[i].id = m.closure.id /\ charging_logs'[i].end_time # NullTime

C4_Restarted ==
  \A m \in Taken :
     /\ m.kind \in StartKinds /\ m.phase = "req"
     /\ Open(m.eq) = {}
     /\ \E r \in Answer(m) : r.ok
     => /\ Len(charging_logs') = Len(charging_logs) + 1
        /\ SubSeq(charging_logs', 1, Len(charging_logs)) = charging_logs
        /\ Open(m.eq)' = {charging_logs'[Len(charging_logs')]}
        /\ \A i \in 1..Len(charging_logs) :
              charging_logs[i].id # charging_logs'[Len(charging_logs')].id

C4_TwoStateCycle == [][C4_Refused /\ C4_Released /\ C4_Restarted]_vars

(* C5: a stop of a session that is already sealed is answered with the "session already
   closed" conflict and leaves the row's endTime as the first stop set it. *)
C5_SecondStopConflicts ==
  [][\A m \in Taken :
        /\ m.kind \in StopKinds /\ m.phase = "req"
        /\ \E r \in Rows(charging_logs) : r.id = m.closure.id /\ r.end_time # NullTime
        => /\ charging_logs' = charging_logs
           /\ \A r \in Answer(m) : ~r.ok]_vars

(* C6: right after a successful startCharging the open-session lookup for the equipment
   returns the inserted row: its equipmentId, userId and chargingPointId are those of the
   call, its endTime is null, and it is the row the call hands to the client. *)
C6_StartThenLookup ==
  [][\A m \in Taken :
        /\ m.kind = "insert" /\ m.phase = "req"
        /\ \E r \in Answer(m) : r.ok
        => \A r \in Answer(m) :
              /\ NewestOpen(Caller(m), m.eq)' = {r.data}
              /\ r.data.equipment_id = m.eq
              /\ r.data.user_id = Caller(m)
              /\ r.data.charging_point_id = m.row.charging_point_id
              /\ r.data.end_time = NullTime]_vars

(* C7: an actor whose profile has Charging_Access = false can neither start nor stop a
   session through any entry point: the checks of the dashboard answer with the
   permission message whatever the point, the reading or the session, and no start or
   stop call of such an actor ever goes to storage. *)
C7_NoAccessNoCall ==
  /\ \A p \in PointIds \cup {NullId}, s \in StringsUpTo(MaxLen), e \in EquipmentIds :
        StartError(e, FALSE, p, s) = "You do not have permission to start charging"
  /\ \A r \in Rows(charging_logs) :
        StopError(r, FALSE) = "You do not have permission to stop charging"
  /\ \A m \in net :
        m.kind \in {"startFetch"} \cup StartKinds \cup StopKinds
        => user_profiles[Caller(m)].Charging_Access

(* C8: no charging-session row and no swap row is written, and no such write is even
   sent, for equipment of another location than the acting profile's; a dashboard opened
   on such a unit selects nothing and shows the "not found or not accessible" error, so
   every start or swap it could attempt stops at "No equipment selected". *)
C8_NoCrossLocationWrite ==
  /\ \A r \in Rows(charging_logs) :
        bet_records[r.equipment_id].location_id = user_profiles[r.user_id].location_id
  /\ \A r \in Rows(swapping_log) :
        bet_records[r.equipment_id].location_id = user_profiles[r.User_id].location_id
  /\ \A m \in net :
        m.kind \in {"startFetch", "insert", "swap"}
        => bet_records[m.row.equipment_id].location_id = Profile(m.client).location_id
  /\ \A c \in Clients :
        /\ ui[c].selectedEquipment # NullId
           => bet_records[ui[c].selectedEquipment].location_id = Profile(c).location_id
        /\ ( /\ ~ui[c].effectPending
             /\ \E e \in EquipmentIds : /\ bet_records[e].equipment_id = ui[c].url
                                        /\ bet_records[e].location_id # Profile(c).location_id )
           => /\ ui[c].queryError = "Equipment not found or not accessible"
              /\ StartError(ui[c].selectedEquipment, Profile(c).Charging_Access,
                            ui[c].selectedChargingPoint, ui[c].meterReading)
                 = "No equipment selected or user not authenticated"
              /\ SwapError(ui[c].selectedEquipment, Profile(c).Swapping_Access,
                           ui[c].swapMeterReading)
                 = "No equipment selected or user not authenticated"

\* C8's case: a dashboard opened on a unit of another location has resolved its URL
C8_Witness ==
  /\ ui["c1"].url = "EQ-003"
  /\ bet_records["e3"].location_id # Profile("c1").location_id
  /\ Profile("c1").Charging_Access \/ Profile("c1").Swapping_Access
  /\ ~ui["c1"].effectPending
  /\ ui["c1"].queryError # ""
  /\ charging_logs = <<>> /\ swapping_log = <<>>

\* a non-negative decimal: digits with at most one decimal point, one digit at least
WellFormedDecimal(s) ==
  /\ s # <<>>
  /\ \A k \in 1..Len(s) : s[k] \in Digits \cup {"."}
  /\ Cardinality({k \in 1..Len(s) : s[k] = "."}) <= 1
  /\ \E k \in 1..Len(s) : s[k] \in Digits

MeterErrors == {"Please enter a meter reading before starting",
                "Please enter a meter reading before recording swap",
                "Meter reading must be a valid number"}

(* C9: startCharging and recordSwap let a meter reading through exactly when it is a
   well-formed non-negative decimal; any other reading ends the call with a validation
   error and nothing is sent to storage. *)
C9_MeterValidation ==
  [][\A c \in Clients :
        /\ ( /\ ui[c].showChargingConfirm /\ ~ui'[c].showChargingConfirm
             /\ ui[c].selectedEquipment # NullId /\ Profile(c).Charging_Access
             /\ ui[c].selectedChargingPoint # NullId )
           => IF WellFormedDecimal(ui[c].meterReading)
              THEN \E m \in Produced : m.client = c /\ m.kind = "startFetch"
              ELSE /\ ui'[c].error \in MeterErrors
                   /\ \A m \in Produced : m.client # c
        /\ ( /\ ui[c].showSwapConfirm /\ ~ui'[c].showSwapConfirm
             /\ ui[c].selectedEquipment # NullId /\ Profile(c).Swapping_Access )
           => IF WellFormedDecimal(ui[c].swapMeterReading)
              THEN \E m \in Produced : m.client = c /\ m.kind = "swap"
              ELSE /\ ui'[c].error \in MeterErrors
                   /\ \A m \in Produced : m.client # c]_vars

StartFailures ==
  <<"You do not have permission to start charging",
    "Please select a charging point before starting",
    "Please enter a meter reading before starting",
    "Equipment is already charging">>

(* C10: startCharging checks (1) charging access, (2) the charging point, (3) the meter
   reading, (4) no open session in the storage read it awaits, in that order; the first
   check that fails decides the outcome, the four outcomes differ from one another, and
   a failed call sends no insert. *)
C10_PreconditionOrder ==
  [][ /\ \A i, j \in 1..4 : i # j => StartFailures[i] # StartFailures[j]
      /\ \A c \in Clients :
            ( /\ ui[c].showChargingConfirm /\ ~ui'[c].showChargingConfirm
              /\ ui[c].selectedEquipment # NullId )
            => LET sent == {m \in Produced : m.client = c}
               IN IF ~Profile(c).Charging_Access
                  THEN ui'[c].error = StartFailures[1] /\ sent = {}
                  ELSE IF ui[c].selectedChargingPoint = NullId
                  THEN ui'[c].error = StartFailures[2] /\ sent = {}
                  ELSE IF MeterMissing(ui[c].meterReading)
                  THEN ui'[c].error = StartFailures[3] /\ sent = {}
                  ELSE IF ~isValidNumericInput(ui[c].meterReading)
                  THEN ui'[c].error = "Meter reading must be a valid number" /\ sent = {}
                  ELSE \A m \in sent : m.kind = "startFetch"
      /\ \A m \in Taken :
            ( /\ m.kind = "startFetch" /\ m.phase = "resp"
              /\ m.ok /\ m.data # NullSession )
            => /\ ui'[m.client].error = StartFailures[4]
               /\ \A r \in Produced : r.client # m.client ]_vars

(* C11: a charging session is only ever started for equipment whose status is
   'operational': no start call is sent and no session row exists for a unit in
   'maintenance' or 'faulty', whichever way the operator selected it. *)
C11_OnlyOperational ==
  /\ \A r \in Rows(charging_logs) : bet_records[r.equipment_id].status = "operational"
  /\ \A m \in net :
        m.kind \in {"startFetch", "insert"}
        => bet_records[m.row.equipment_id].status = "operational"

(* C12: stopCharging changes only the session row whose id is the id of the session it
   was invoked with, and of that row only endTime; every other row, a second open
   session of the same equipment included, and the swap ledger stay as they were. *)
C12_StopTouchesOneRow ==
  [][\A m \in Taken :
        m.kind \in StopKinds /\ m.phase = "req"
        => /\ Len(charging_logs') = Len(charging_logs)
           /\ \A i \in 1..Len(charging_logs) :
                 IF charging_logs[i].id = m.closure.id
                 THEN [charging_logs'[i] EXCEPT !.end_time = NullTime]
                      = [charging_logs[i] EXCEPT !.end_time = NullTime]
                 ELSE charging_logs'[i] = charging_logs[i]
           /\ swapping_log' = swapping_log]_vars

\* C12's case: session 1 has been stopped while session 2 of the same unit is open
C12_Witness ==
  /\ Len(charging_logs) = 2
  /\ charging_logs[1].end_time # NullTime
  /\ charging_logs[2].end_time = NullTime
  /\ charging_logs[1].equipment_id = charging_logs[2].equipment_id

\* a state SpecStop starts in; Spec reaches it (RacedStateNotReached is violated there)
RacedState ==
  /\ charging_logs = <<RacedSession(1, "u1", 1), RacedSession(2, "u2", 2)>>
  /\ now = 2
  /\ ui = [c \in Clients |-> IF c = "c1" THEN RacedClient("u1", RacedSession(1, "u1", 1))
                             ELSE RacedClient("u2", RacedSession(2, "u2", 2))]
  /\ swapping_log = <<>>
  /\ net = {}
  /\ notified = [c \in Clients |-> {"charging_logs", "swapping_log"}]

RacedStateNotReached == ~RacedState

(* C13: any actor with charging access at the session's location may stop an open
   session, its own or not: whenever a stop is answered as a success (the client then
   clears its current session and shows no error) the targeted row has a non-null
   endTime in storage. *)
C13_StopSuccessMeansSealed ==
  [][\A m \in Taken :
        /\ m.kind \in StopKinds /\ m.phase = "resp" /\ m.ok
        /\ Profile(m.client).Charging_Access
        /\ Profile(m.client).location_id = m.closure.location_id
        => \A r \in Rows(charging_logs') : r.id = m.closure.id => r.end_time # NullTime]_vars

SwapRowsOf(log, e) == {i \in 1..Len(log) : log[i].equipment_id = e}

(* C14: each successful recordSwap appends exactly one swap row, with count "1", for
   the equipment selected; the swap ledger changes in no other way; and the total the
   count query returns is the number of swap rows of the equipment, so k successful
   swaps on an empty ledger give a total of k, concurrent clients included. *)
C14_OneRowPerSwap ==
  [][ /\ \A m \in Taken :
            m.kind = "swap" /\ m.phase = "req" /\ (\E r \in Produced : r.kind = "swap" /\ r.ok)
            => /\ Len(swapping_log') = Len(swapping_log) + 1
               /\ SubSeq(swapping_log', 1, Len(swapping_log)) = swapping_log
               /\ swapping_log'[Len(swapping_log')].Count = "1"
               /\ swapping_log'[Len(swapping_log')].equipment_id = m.eq
               /\ Cardinality(SwapRowsOf(swapping_log', m.eq))
                  = Cardinality(SwapRowsOf(swapping_log, m.eq)) + 1
      /\ swapping_log' # swapping_log
         => \E m \in Taken : m.kind = "swap" /\ m.phase = "req"
      /\ \A m \in Taken :
            m.kind = "count" /\ m.phase = "req"
            => \A r \in Produced : r.count = Cardinality(SwapRowsOf(swapping_log, m.eq)) ]_vars

\* C14's case: two swaps by different operators are in the ledger and a client shows 2
C14_Witness ==
  /\ Len(swapping_log) = 2
  /\ swapping_log[1].User_id # swapping_log[2].User_id
  /\ swapping_log[1].equipment_id = swapping_log[2].equipment_id
  /\ \E c \in Clients : ui[c].totalSwapCount = 2

(* C15: recording a swap does not depend on the charging state and does not touch it,
   and charging does not touch swaps: the Record Swap button acts whenever equipment is
   selected, the profile has swapping access, a reading is typed and no swap is under
   way, whether the equipment is Idle or Charging; every swap the storage takes up is
   appended and answered ok; no step of the swap flow changes a charging row or a
   client's current session; no step of the charging flow changes the swap ledger or a
   client's swap count. *)
C15_SwapIndependentOfCharging ==
  [][ /\ \A c \in {"c1"} :
            /\ ui[c].page = "UserDashboard"
            /\ ui[c].selectedEquipment # NullId
            /\ Profile(c).Swapping_Access
            /\ ~ui[c].swappingLoading
            /\ ui[c].swapMeterReading # <<>>
            /\ ~ui[c].showSwapConfirm
            => ENABLED handleRecordSwapClick(c)
      /\ \A m \in net :
            m.kind = "swap" /\ m.phase = "req" /\ Len(swapping_log) < MaxSwaps
            => ENABLED StorageSwapInsert(m)
      /\ \A m \in Taken :
            m.kind = "swap" /\ m.phase = "req"
            => /\ Len(swapping_log') = Len(swapping_log) + 1
               /\ \E r \in Produced : r.kind = "swap" /\ r.phase = "resp" /\ r.ok
      /\ (\E m \in Taken \cup Produced : m.kind \in SwapKinds)
         => /\ charging_logs' = charging_logs
            /\ \A c \in Clients : ui'[c].currentSession = ui[c].currentSession
      /\ (\E m \in Taken \cup Produced : m.kind \in ChargingKinds)
         => /\ swapping_log' = swapping_log
            /\ \A c \in Clients : ui'[c].totalSwapCount = ui[c].totalSwapCount
      /\ swapping_log' # swapping_log => charging_logs' = charging_logs ]_vars

\* C15's case: the equipment is Charging, the client shows the session, and a swap
\* call for the same equipment is at the storage, which can take it up now
C15_Witness ==
  /\ Open("e1") # {}
  /\ ui["c1"].currentSession # NullSession
  /\ \E m \in net : /\ m.kind = "swap" /\ m.phase = "req" /\ m.eq = "e1"
                     /\ ENABLED StorageSwapInsert(m)

(* C16: a profile with is_active = false is denied every operation but reading its own
   profile: no step taken by a session whose account is inactive changes a row of
   user_profiles, bet_records, charging_logs or swapping_log. *)
C16_InactiveDenied ==
  [][\A a \in Actors :
        ~directory[a].is_active /\ Management(a)
        => /\ directory' = directory
           /\ records' = records
           /\ charging_logs' = charging_logs
           /\ swapping_log' = swapping_log]_vars

\* every notification has been delivered and every call it or a handler made has returned
Settled ==
  /\ \A m \in net : m.kind \notin ChargingKinds
  /\ \A c \in Clients : "charging_logs" \notin notified[c] /\ ~ui[c].effectPending

(* C17: observers converge on the ledger: once every change notification has been
   delivered and every re-fetch has completed, the current session of each client that
   has the equipment selected is the ledger's open session of that equipment, and is
   null when the equipment has no open session. *)
C17_ObserversConverge ==
  Settled
  => \A c \in Clients :
        ui[c].page = "UserDashboard" /\ ui[c].selectedEquipment # NullId
        => IF Open(ui[c].selectedEquipment) = {}
           THEN ui[c].currentSession = NullSession
           ELSE ui[c].currentSession \in Open(ui[c].selectedEquipment)

(* C18: authority over profiles follows the acting profile's role as the directory holds
   it: a step of an admin changes or creates only profiles with role user and the
   admin's own location, and changes no role and no location; a step of an account that
   is not super_admin changes no role or location of another profile and creates or
   edits no admin or super_admin profile; a step of a role-user account changes no
   profile but its own. *)
C18_ProfileAuthority ==
  [][\A a \in Actors :
        Management(a)
        => \A t \in Accounts :
              directory'[t] # directory[t]
              => /\ directory[a].role = "admin"
                    => /\ directory'[t].role = "user"
                       /\ directory'[t].location_id = directory[a].location_id
                       /\ directory[t] # NoProfile
                          => /\ directory'[t].role = directory[t].role
                             /\ directory'[t].location_id = directory[t].location_id
                 /\ directory[a].role # "super_admin"
                    => /\ directory[t].role \notin {"admin", "super_admin"}
                       /\ directory'[t].role \notin {"admin", "super_admin"}
                       /\ t # a /\ directory[t] # NoProfile
                          => /\ directory'[t].role = directory[t].role
                             /\ directory'[t].location_id = directory[t].location_id
                 /\ directory[a].role = "user" => t = a]_vars

(* C19: in every reachable state every user profile with role super_admin has a null
   location_id and every profile with role admin or user has a location_id that refers
   to a location; creating a profile and editing one, a change of role in either
   direction included, keep it so. *)
C19_RoleLocation ==
  \A t \in Accounts :
     directory[t] # NoProfile
     => /\ directory[t].role \in Roles
        /\ directory[t].role = "super_admin" => directory[t].location_id = NullId
        /\ directory[t].role \in {"admin", "user"} => directory[t].location_id \in Locations

\* C19's case: a profile has been created, a super_admin has been given another role and
\* an admin has been made super_admin
C19_Witness ==
  /\ directory["n1"] # NoProfile
  /\ directory["s1"].role # "super_admin"
  /\ directory["a1"].role = "super_admin"

(* C20: an equipment record is deleted only when the acting profile has role
   super_admin: rows of bet_records disappear by handleDelete alone, and a handleDelete
   of an account whose role is admin or user removes no row. *)
C20_OnlySuperAdminDeletes ==
  [][records' # records
     => /\ \E a \in Actors, e \in EquipmentIds : handleDelete(a, e)
        /\ \A a \in Actors :
              (\E e \in EquipmentIds : handleDelete(a, e))
              => directory[a].role = "super_admin"]_vars

\* C20's case: a record has been deleted, and a session that still shows the Delete
\* button belongs to an account that is an admin by now
C20_Witness ==
  /\ records # EquipmentIds
  /\ \E a \in Actors : /\ console[a].profile.role = "super_admin"
                       /\ directory[a].role = "admin"
                       /\ directory[a].is_active
                       /\ \E e \in records : bet_records[e].location_id = directory[a].location_id

\* a step of the charging points tab taken by the session of account a
PointStep(a) ==
  \/ \E name \in PointNames : ChargingPoints_handleAddSave(a, name)
  \/ \E p \in PointSlots, name \in PointNames : ChargingPoints_handleEditSave(a, p, name)
  \/ \E p \in PointSlots : ChargingPoints_handleDelete(a, p)

(* C21: charging points change only by the hand of an admin or super_admin; a point
   created or renamed has the location of the acting profile, and a rename leaves the
   location as it was; a point is removed only when the acting profile is super_admin.
   The acting profile is the account's row of user_profiles. *)
C21_PointAuthority ==
  [][points' # points
     => /\ \E a \in Actors : PointStep(a)
        /\ \A a \in Actors :
              PointStep(a)
              => /\ directory[a].role \in {"admin", "super_admin"}
                 /\ \A p \in PointSlots :
                       points'[p] # points[p]
                       => IF points'[p] = NoPoint
                          THEN directory[a].role = "super_admin"
                          ELSE /\ points'[p].Locations = directory[a].location_id
                               /\ points[p] # NoPoint
                                  => points'[p].Locations = points[p].Locations]_vars

\* the locations of the rows the Dashboard of account a retrieves, over its five lists
RetrievedLocations(a) ==
  UNION {{bet_records[e].location_id : e \in fetchBETRecords(a, s)}
         \cup {r.location_id : r \in fetchChargingLogs(a, s)}
         \cup {r.location_id : r \in fetchSwappingLogs(a, s)} : s \in LocationChoices}
  \cup {directory[t].location_id : t \in {x \in Accounts : UsersListed(a, x)}}
  \cup {points[p].Locations : p \in {x \in PointSlots : PointsListed(a, x)}}

(* C22: every list of equipment, charging sessions, swap events, user profiles or
   charging points that a signed-in admin or user retrieves holds only rows of the
   acting profile's location; only a super_admin retrieves rows of other locations.
   The acting profile is the account's row of user_profiles. *)
C22_ListsScoped ==
  \A a \in Actors :
    DashboardShown(a) /\ directory[a].role # "super_admin"
    => RetrievedLocations(a) \subseteq {directory[a].location_id}

(* C23: every charging row with an end time has startTime <= endTime, the start stamped
   by the client that started the session and the end by the client that stopped it. *)
C23_StartBeforeEnd ==
  \A r \in Rows(charging_logs) : r.end_time # NullTime => r.start_time <= r.end_time

(* C24: both ledgers only grow: no step removes a charging row or a swap row, none
   changes a swap row, and the only change to a charging row sets its end time from
   null to a timestamp; the number of swaps of an equipment never decreases. *)
C24_LedgersOnlyGrow ==
  [][/\ Len(charging_logs') >= Len(charging_logs)
     /\ \A i \in 1..Len(charging_logs) :
           \/ charging_logs'[i] = charging_logs[i]
           \/ /\ charging_logs[i].end_time = NullTime
              /\ charging_logs'[i].end_time # NullTime
              /\ charging_logs'[i] = [charging_logs[i] EXCEPT !.end_time = charging_logs'[i].end_time]
     /\ Len(swapping_log') >= Len(swapping_log)
     /\ \A i \in 1..Len(swapping_log) : swapping_log'[i] = swapping_log[i]]_vars

LookupKinds == {"fetch", "startFetch", "ccFetch"}

(* C26: every open-session lookup, of the dashboard and of the charging card alike,
   is answered without failure: with null when the equipment has no open row, with
   that row when it has one, with an open row of greatest start time when it has
   several; never with a sealed row. *)
C26_LookupNewestOpen ==
  [][\A m \in Taken :
        m.kind \in LookupKinds /\ m.phase = "req"
        => \A r \in Answer(m) : r.ok /\ r.data \in NewestOpen(Caller(m), m.eq)]_vars

WriteKinds == {"insert", "update", "swap"}
WritesSent == {r \in Produced : r.phase = "req" /\ r.kind \in WriteKinds}

(* C25: each invocation of startCharging, stopCharging or recordSwap issues at most one
   write and never sends it again; when the write fails the ledgers are as before, the
   client keeps the current session it had, an error is shown and the loading flag is
   cleared. *)
C25_FailedWriteLeavesState ==
  [][/\ Cardinality(WritesSent) <= 1
     /\ \A m \in Taken :
           m.kind \in WriteKinds
           => /\ m.phase = "req"
                 => \A r \in Answer(m) :
                       ~r.ok => charging_logs' = charging_logs /\ swapping_log' = swapping_log
              /\ m.phase = "resp" => WritesSent = {}
              /\ m.phase = "resp" /\ ~m.ok
                 => /\ charging_logs' = charging_logs /\ swapping_log' = swapping_log
                    /\ ui'[m.client].currentSession = ui[m.client].currentSession
                    /\ ui'[m.client].error = m.err /\ m.err # ""
                    /\ IF m.kind = "swap" THEN ~ui'[m.client].swappingLoading
                       ELSE ~ui'[m.client].operationLoading]_vars

\* a stop has failed: the error is shown, the session is kept and its row is still open
C25_Witness ==
  /\ ui["c1"].error = "Failed to fetch"
  /\ ~ui["c1"].operationLoading
  /\ ui["c1"].currentSession # NullSession
  /\ \E r \in Rows(charging_logs) : r.id = ui["c1"].currentSession.id /\ r.end_time = NullTime

(* C27: on the operator dashboard a current session that is not null belongs to the
   equipment currently selected, also when the selection changes while an open-session
   fetch for the previous selection is under way; so stopCharging never seals a session
   of another equipment. *)
C27_SessionOfSelected ==
  \A c \in Clients :
    ui[c].page = "UserDashboard" /\ ui[c].currentSession # NullSession
    => ui[c].currentSession.equipment_id = ui[c].selectedEquipment

\* the startCharging inserts of client c for equipment e that are under way
InsertsInFlight(c, e) == {m \in net : m.client = c /\ m.kind = "insert" /\ m.eq = e}

(* C28: one operator client never has two startCharging inserts under way for the same
   equipment: confirming Start twice in quick succession creates at most one session
   row. *)
C28_OneStartInFlight ==
  \A c \in Clients, e \in EquipmentIds : Cardinality(InsertsInFlight(c, e)) <= 1

\* nothing of the provider is pending: no event to deliver, no fetch to answer
AuthQuiet == ~auth.boot /\ auth.events = <<>> /\ auth.fetches = {}

(* C29: in the auth provider, whenever user and profile are both set the profile is
   the user's; and once a sign-out has been processed and every pending profile fetch
   has answered, the profile is null; for any ordering of auth-state events and
   profile-fetch responses. *)
C29_ProfileOfUser ==
  /\ auth.user # NullId /\ auth.profile # NullId => auth.profile = auth.user
  /\ AuthQuiet /\ auth.session = NullId => auth.profile = NullId

(* C30: within one AuthProvider lifetime at most MAX_RESEND_ATTEMPTS resend requests
   reach the identity provider and two consecutive ones are at least RESEND_COOLDOWN_MS
   apart; a resend outside these limits contacts nobody and leaves the counter alone;
   also when a failed sign-in and the resend button are used in quick succession. *)
C30_ResendLimits ==
  [][/\ Len(auth'.sent) <= MAX_RESEND_ATTEMPTS
     /\ \A i \in 1..(Len(auth'.sent) - 1) :
           auth'.sent[i + 1] - auth'.sent[i] >= RESEND_COOLDOWN_MS
     /\ auth'.resendState # auth.resendState <=> auth'.sent # auth.sent]_vars

====
